---- MODULE Spec2Model ----
(***************************************************************************)
(* Trade lifecycle of collie-trader: the per-modality active-trade slots   *)
(* of useTradeLifecycle, the tick evaluation of tradeLifecycleManager      *)
(* (checkTPSL, manuallyCloseTrade, calculatePnL) and the closed-trade      *)
(* history of tradeStorage (appendClosedTrade).                            *)
(*                                                                         *)
(* Prices are integers in units of 1/8 of the stop distance of a           *)
(* synthesized setup, so that every level the code computes (1.5x, 2.5x,   *)
(* 4x the stop distance; 1x, 2x, 3x, 4.5x half the tp1 distance) is an     *)
(* integer.  PnL values are exact rationals [n, d] (numerator,             *)
(* denominator); floating-point rounding is not modelled.                  *)
(***************************************************************************)
EXTENDS Integers, Sequences, FiniteSets, TLC

VARIABLES
  trades,       \* useState trades: modality -> Trade or Null
  pricesRef,    \* pricesRef.current: symbol -> price, 0 when absent
  history,      \* localStorage user_trade_history, newest first
  regenTimers,  \* modality -> number of armed setTimeout(generateNewTrade, 2000)
  genInFlight,  \* modality -> generateNewTrade calls awaiting generateTradeSetup
  pending,      \* closeTrade / reverseTrade calls suspended at their await
  nextId,       \* source of fresh trade ids (generateId)
  appended,     \* every ClosedTrade ever passed to appendClosedTrade, oldest first
  lastOp,       \* the operation whose step produced the current state
  arg,          \* the arguments of the scoring / synthesis call under way
  ret           \* what that call returned; Null before it has returned

vars == <<trades, pricesRef, history, regenTimers, genInFlight,
          pending, nextId, appended, lastOp, arg, ret>>

----------------------------------------------------------------------------
(* Bounds of the model *)

\* trades generateNewTrade installs in one run (simulated / live specification)
MaxTrades == 1
MaxLiveTrades == 2
\* ClosedTrades appended to the history in one run (simulated / live specification)
MaxCloses == 1
MaxLiveCloses == 1
\* generateNewTrade calls armed or in flight when the user starts another
\* (simulated / live specification)
MaxGenerating == 1
MaxLiveGenerating == 2
\* closeTrade / reverseTrade calls suspended at their await at one time
MaxPending == 1
\* appends performed by the history specification
MaxAppends == 502

----------------------------------------------------------------------------
(* Program constants *)

\* tradeStorage.appendClosedTrade: history.slice(0, 500)
HISTORY_LIMIT == 500
\* useTradeLifecycle.generateNewTrade: total_capital default '1000'
DefaultCapital == 1000

\* Object.values(TradeModality), in enum order, restricted to the first two
\* of the four modalities (the slots are handled uniformly by the code).
ModalitySeq == <<"Scalping", "DayTrading">>
Modalities == {ModalitySeq[i] : i \in 1..Len(ModalitySeq)}

Symbols == {"BTCUSDT", "ETHUSDT"}

\* Prices a tick may carry for a symbol; 0 stands for "no price in the map".
\* The simulated specification follows one symbol through every level; the
\* live specification follows both symbols through the two closing levels.
PriceLevels == {90, 100, 112, 124, 134}
PriceMaps == {[s \in Symbols |-> IF s = "BTCUSDT" THEN p ELSE 0] :
                p \in PriceLevels \cup {0}}
LivePriceMaps == [Symbols -> {0, 90, 134}]

\* The empty slot (null).
Null == [id |-> 0]

----------------------------------------------------------------------------
(* tradeLifecycleManager *)

\* calculatePnL without the direction: the long formula for every trade.
calculatePnL_longOnly(trade, currentPrice) ==
  [pnl        |-> [n |-> (currentPrice - trade.entry) * trade.positionSize,
                   d |-> trade.entry],
   pnlPercent |-> [n |-> (currentPrice - trade.entry) * 100, d |-> trade.entry]]

\* calculatePnL: pnlPercent = priceDiff / entry * 100,
\*               pnl        = priceDiff / entry * positionSize
calculatePnL(trade, currentPrice) ==
  LET isLong == trade.direction = "LONG"
      priceDiff == IF isLong THEN currentPrice - trade.entry
                             ELSE trade.entry - currentPrice
  IN [pnl        |-> [n |-> priceDiff * trade.positionSize, d |-> trade.entry],
      pnlPercent |-> [n |-> priceDiff * 100, d |-> trade.entry]]

\* { ...trade, status, closePrice, pnl, pnlPercent }
Closed(trade, status, closePrice, p) ==
  [id |-> trade.id, modality |-> trade.modality, symbol |-> trade.symbol,
   direction |-> trade.direction, entry |-> trade.entry,
   tp1 |-> trade.tp1, tp2 |-> trade.tp2, tp3 |-> trade.tp3,
   stopLoss |-> trade.stopLoss, currentSL |-> trade.currentSL,
   positionSize |-> trade.positionSize,
   tp1Hit |-> trade.tp1Hit, tp2Hit |-> trade.tp2Hit, tp3Hit |-> trade.tp3Hit,
   status |-> status, closePrice |-> closePrice,
   pnl |-> p.pnl, pnlPercent |-> p.pnlPercent]

\* slHit with strict comparisons: a tick exactly at the stop does not close.
slHit_strict(trade, currentPrice) ==
  IF trade.direction = "LONG" THEN currentPrice < trade.currentSL
                              ELSE currentPrice > trade.currentSL

\* checkTPSL, line 22: the stop is breached at currentSL.
slHit(trade, currentPrice) ==
  IF trade.direction = "LONG" THEN currentPrice <= trade.currentSL
                              ELSE currentPrice >= trade.currentSL

\* checkTPSL, lines 39, 59, 69: the target `level` is reached.
targetHit(trade, level, currentPrice) ==
  IF trade.direction = "LONG" THEN currentPrice >= level
                              ELSE currentPrice <= level

\* closeAtSL at the original stop instead of the current one.
closeAtSL_originalStop(trade) ==
  Closed(trade, "SLHit", trade.stopLoss, calculatePnL(trade, trade.stopLoss))

\* checkTPSL, lines 24-32: the ClosedTrade of a stop-loss exit.
closeAtSL(trade) ==
  Closed(trade, "SLHit", trade.currentSL, calculatePnL(trade, trade.currentSL))

\* closeAtTP3 without forcing the earlier target flags.
closeAtTP3_flagsKept(trade) ==
  Closed([trade EXCEPT !.tp3Hit = TRUE],
         "TP3Hit", trade.tp3, calculatePnL(trade, trade.tp3))

\* checkTPSL, lines 41-52: the ClosedTrade of a tp3 exit.
closeAtTP3(trade) ==
  Closed([trade EXCEPT !.tp1Hit = TRUE, !.tp2Hit = TRUE, !.tp3Hit = TRUE],
         "TP3Hit", trade.tp3, calculatePnL(trade, trade.tp3))

\* checkTPSL, lines 58-66: the tp2 check.
checkTP2(updated, currentPrice) ==
  IF targetHit(updated, updated.tp2, currentPrice) /\ ~updated.tp2Hit
  THEN [updated EXCEPT !.tp2Hit = TRUE, !.status = "TP2Hit"]
  ELSE updated

\* checkTP1 that leaves the stop where it was.
checkTP1_stopKept(updated, currentPrice) ==
  IF targetHit(updated, updated.tp1, currentPrice) /\ ~updated.tp1Hit
  THEN [updated EXCEPT !.tp1Hit = TRUE, !.status = "TP1Hit"]
  ELSE updated

\* checkTPSL, lines 68-77: the tp1 check, which moves the stop to breakeven.
checkTP1(updated, currentPrice) ==
  IF targetHit(updated, updated.tp1, currentPrice) /\ ~updated.tp1Hit
  THEN [updated EXCEPT !.tp1Hit = TRUE, !.status = "TP1Hit",
                       !.currentSL = updated.entry]
  ELSE updated

\* checkTPSL with the tp1 check skipped when the tp2 check has fired.
checkTPSL_oneTarget(trade, currentPrice) ==
  IF slHit(trade, currentPrice)
  THEN [updated |-> trade, closed |-> TRUE, closedTrade |-> closeAtSL(trade)]
  ELSE IF targetHit(trade, trade.tp3, currentPrice) /\ ~trade.tp3Hit
  THEN [updated |-> trade, closed |-> TRUE, closedTrade |-> closeAtTP3(trade)]
  ELSE [updated |-> IF checkTP2(trade, currentPrice) # trade
                    THEN checkTP2(trade, currentPrice)
                    ELSE checkTP1(trade, currentPrice),
        closed |-> FALSE, closedTrade |-> Null]

\* checkTPSL: the result {updated, closed, closedTrade}; closedTrade is Null
\* when the trade stays open.  A closing call has also passed closedTrade to
\* appendClosedTrade; TickLoop, its only caller, applies that to the history.
checkTPSL(trade, currentPrice) ==
  IF slHit(trade, currentPrice)
  THEN [updated |-> trade, closed |-> TRUE, closedTrade |-> closeAtSL(trade)]
  ELSE IF targetHit(trade, trade.tp3, currentPrice) /\ ~trade.tp3Hit
  THEN [updated |-> trade, closed |-> TRUE, closedTrade |-> closeAtTP3(trade)]
  ELSE [updated |-> checkTP1(checkTP2(trade, currentPrice), currentPrice),
        closed |-> FALSE, closedTrade |-> Null]

\* manuallyCloseTrade: the ClosedTrade it builds, appends and returns.
manuallyCloseTrade(trade, currentPrice) ==
  Closed(trade, "ManuallyClosed", currentPrice, calculatePnL(trade, currentPrice))

----------------------------------------------------------------------------
(* tradeStorage *)

\* appendClosedTrade with push instead of unshift.
appendClosedTrade_push(hist, closedTrade) ==
  LET pushed == Append(hist, closedTrade)
  IN SubSeq(pushed, 1, IF Len(pushed) < HISTORY_LIMIT
                       THEN Len(pushed) ELSE HISTORY_LIMIT)

\* appendClosedTrade: history.unshift(trade); history.slice(0, 500)
appendClosedTrade(hist, closedTrade) ==
  LET unshifted == <<closedTrade>> \o hist
  IN SubSeq(unshifted, 1, IF Len(unshifted) < HISTORY_LIMIT
                          THEN Len(unshifted) ELSE HISTORY_LIMIT)

\* getEmptyTrades
getEmptyTrades == [m \in Modalities |-> Null]

----------------------------------------------------------------------------
(* aiTradeSelection: the setups generateTradeSetup can return *)

\* buildTradeSetupFromSymbol: stop at slDistance, targets at 1.5x, 2.5x and 4x
\* slDistance from the entry, on the sides the direction prescribes.
buildTradeSetupFromSymbol(symbol, direction, entryPrice, slDistance) ==
  LET sgn == IF direction = "LONG" THEN 1 ELSE -1
  IN [symbol |-> symbol, direction |-> direction, entry |-> entryPrice,
      stopLoss |-> entryPrice - sgn * slDistance,
      tp1 |-> entryPrice + sgn * ((slDistance * 3) \div 2),
      tp2 |-> entryPrice + sgn * ((slDistance * 5) \div 2),
      tp3 |-> entryPrice + sgn * (slDistance * 4)]

\* The (symbol, direction, entry, slDistance) the market analysis may come up with.
\* slDistance is 0 when atr is positive and below the spacing of the Numbers
\* at the entry (nearly flat candles): every level rounds to the entry, rrRatio
\* is 0/0 = NaN, `rrRatio < 1.5` is false and the setup with all levels at the
\* entry is returned.
SetupInputs == {<<"BTCUSDT", "LONG", 100, 8>>, <<"BTCUSDT", "SHORT", 124, 8>>,
                <<"BTCUSDT", "LONG", 100, 0>>}
LiveSetupInputs == {<<"BTCUSDT", "LONG", 100, 8>>, <<"ETHUSDT", "SHORT", 124, 8>>}

\* generateTradeSetup: a setup, or Null when no candidate yields one.
Setups == {buildTradeSetupFromSymbol(i[1], i[2], i[3], i[4]) : i \in SetupInputs}
LiveSetups == {buildTradeSetupFromSymbol(i[1], i[2], i[3], i[4]) : i \in LiveSetupInputs}

----------------------------------------------------------------------------
(* useTradeLifecycle *)

\* NewTradeFromSetup with the modality of the first slot written into every trade.
NewTradeFromSetup_firstSlot(setup, modality, id) ==
  [id |-> id, modality |-> ModalitySeq[1], symbol |-> setup.symbol,
   direction |-> setup.direction, entry |-> setup.entry,
   tp1 |-> setup.tp1, tp2 |-> setup.tp2, tp3 |-> setup.tp3,
   stopLoss |-> setup.stopLoss, currentSL |-> setup.stopLoss,
   status |-> "Active", positionSize |-> (DefaultCapital * 2) \div 100,
   tp1Hit |-> FALSE, tp2Hit |-> FALSE, tp3Hit |-> FALSE]

\* generateNewTrade: the Trade built from a setup (lines 74-95).
NewTradeFromSetup(setup, modality, id) ==
  [id |-> id, modality |-> modality, symbol |-> setup.symbol,
   direction |-> setup.direction, entry |-> setup.entry,
   tp1 |-> setup.tp1, tp2 |-> setup.tp2, tp3 |-> setup.tp3,
   stopLoss |-> setup.stopLoss, currentSL |-> setup.stopLoss,
   status |-> "Active", positionSize |-> (DefaultCapital * 2) \div 100,
   tp1Hit |-> FALSE, tp2Hit |-> FALSE, tp3Hit |-> FALSE]

\* closeTrade / reverseTrade: pricesRef.current[trade.symbol] || trade.entry
PriceFor(trade, prices) ==
  IF prices[trade.symbol] # 0 THEN prices[trade.symbol] ELSE trade.entry

Abs(x) == IF x < 0 THEN -x ELSE x

\* ReversedTrade with tp3 at 4x instead of 4.5x the distance.
ReversedTrade_tp3At4(trade, currentPrice, id) ==
  LET newDirection == IF trade.direction = "LONG" THEN "SHORT" ELSE "LONG"
      atrApprox == Abs(trade.tp1 - trade.entry) \div 2
      sgn == IF newDirection = "LONG" THEN 1 ELSE -1
  IN [trade EXCEPT
        !.id = id,
        !.direction = newDirection,
        !.entry = currentPrice,
        !.stopLoss = currentPrice - sgn * atrApprox,
        !.currentSL = currentPrice - sgn * atrApprox,
        !.tp1 = currentPrice + sgn * (atrApprox * 2),
        !.tp2 = currentPrice + sgn * (atrApprox * 3),
        !.tp3 = currentPrice + sgn * (atrApprox * 4),
        !.status = "Active",
        !.tp1Hit = FALSE, !.tp2Hit = FALSE, !.tp3Hit = FALSE]

\* reverseTrade: the new Trade (lines 128-168).
ReversedTrade(trade, currentPrice, id) ==
  LET newDirection == IF trade.direction = "LONG" THEN "SHORT" ELSE "LONG"
      atrApprox == Abs(trade.tp1 - trade.entry) \div 2
      sgn == IF newDirection = "LONG" THEN 1 ELSE -1
  IN [trade EXCEPT
        !.id = id,
        !.direction = newDirection,
        !.entry = currentPrice,
        !.stopLoss = currentPrice - sgn * atrApprox,
        !.currentSL = currentPrice - sgn * atrApprox,
        !.tp1 = currentPrice + sgn * (atrApprox * 2),
        !.tp2 = currentPrice + sgn * (atrApprox * 3),
        !.tp3 = currentPrice + sgn * ((atrApprox * 9) \div 2),
        !.status = "Active",
        !.tp1Hit = FALSE, !.tp2Hit = FALSE, !.tp3Hit = FALSE]

\* The loop of checkAndUpdateTrades' state updater over Object.values(TradeModality):
\* acc carries `updated`, the history and the timers armed so far.
RECURSIVE TickLoop(_, _, _, _)
\* The loop with `break` in place of `continue` on a missing price.
TickLoop_breakOnMissing(i, prev, prices, acc) ==
  IF i > Len(ModalitySeq) THEN acc
  ELSE
    LET modality == ModalitySeq[i]
        trade == prev[modality]
    IN IF trade = Null THEN TickLoop(i + 1, prev, prices, acc)
       ELSE IF prices[trade.symbol] = 0 THEN acc
       ELSE
         LET r == checkTPSL(trade, prices[trade.symbol])
         IN IF r.closed
            THEN TickLoop(i + 1, prev, prices,
                   [acc EXCEPT !.updated[modality] = Null,
                               !.hist = appendClosedTrade(@, r.closedTrade),
                               !.log = Append(@, r.closedTrade),
                               !.timers[modality] = @ + 1])
            ELSE IF r.updated # trade
            THEN TickLoop(i + 1, prev, prices,
                   [acc EXCEPT !.updated[modality] = r.updated])
            ELSE TickLoop(i + 1, prev, prices, acc)

TickLoop(i, prev, prices, acc) ==
  IF i > Len(ModalitySeq) THEN acc
  ELSE
    LET modality == ModalitySeq[i]
        trade == prev[modality]
    IN IF trade = Null THEN TickLoop(i + 1, prev, prices, acc)
       ELSE IF prices[trade.symbol] = 0 THEN TickLoop(i + 1, prev, prices, acc)
       ELSE
         LET r == checkTPSL(trade, prices[trade.symbol])
         IN IF r.closed
            THEN TickLoop(i + 1, prev, prices,
                   [acc EXCEPT !.updated[modality] = Null,
                               !.hist = appendClosedTrade(@, r.closedTrade),
                               !.log = Append(@, r.closedTrade),
                               !.timers[modality] = @ + 1])
            ELSE IF r.updated # trade
            THEN TickLoop(i + 1, prev, prices,
                   [acc EXCEPT !.updated[modality] = r.updated])
            ELSE TickLoop(i + 1, prev, prices, acc)

\* checkAndUpdateTrades(prices)
CheckAndUpdateTrades(prices) ==
  LET r == TickLoop(1, trades, prices,
                    [updated |-> trades, hist |-> history, log |-> appended,
                     timers |-> regenTimers])
  IN /\ pricesRef' = prices
     /\ trades' = r.updated
     /\ history' = r.hist
     /\ appended' = r.log
     /\ regenTimers' = r.timers
     /\ lastOp' = "Tick"
     /\ UNCHANGED <<genInFlight, pending, nextId, arg, ret>>

\* updatePrices(prices)
UpdatePrices(prices) ==
  /\ pricesRef' = prices
  /\ lastOp' = "Other"
  /\ UNCHANGED <<trades, history, regenTimers, genInFlight,
                 pending, nextId, appended, arg, ret>>

\* generateNewTrade(modality) up to its await, called for an empty slot (the
\* card's "Generate Trade" button, initializeAllTrades).  The `generating` flag
\* only feeds the display and is not modelled.
GenerateStart(modality) ==
  /\ trades[modality] = Null
  /\ genInFlight' = [genInFlight EXCEPT ![modality] = @ + 1]
  /\ lastOp' = "Other"
  /\ UNCHANGED <<trades, pricesRef, history, regenTimers,
                 pending, nextId, appended, arg, ret>>

\* The setTimeout(() => generateNewTrade(modality), 2000) armed by a close fires.
RegenTimerFires(modality) ==
  /\ regenTimers[modality] > 0
  /\ regenTimers' = [regenTimers EXCEPT ![modality] = @ - 1]
  /\ genInFlight' = [genInFlight EXCEPT ![modality] = @ + 1]
  /\ lastOp' = "Other"
  /\ UNCHANGED <<trades, pricesRef, history, pending, nextId, appended, arg, ret>>

\* generateNewTrade(modality) after its await: generateTradeSetup returned setup
\* (Null: no setup, the slot is left alone).
GenerateFinish(modality, setup) ==
  /\ genInFlight[modality] > 0
  /\ genInFlight' = [genInFlight EXCEPT ![modality] = @ - 1]
  /\ IF setup = Null
     THEN UNCHANGED <<trades, nextId>>
     ELSE /\ trades' = [trades EXCEPT ![modality] =
                          NewTradeFromSetup(setup, modality, nextId)]
          /\ nextId' = nextId + 1
  /\ lastOp' = "Other"
  /\ UNCHANGED <<pricesRef, history, regenTimers, pending, appended, arg, ret>>

\* closeTrade up to `await executeTradeClose`: what the call has captured.
CloseCall(modality) ==
  [kind |-> "close", m |-> modality, trade |-> trades[modality],
   price |-> PriceFor(trades[modality], pricesRef)]

\* closeTrade after the await: manuallyCloseTrade, clear the slot, arm the timer.
CloseResume(c) ==
  LET closedTrade == manuallyCloseTrade(c.trade, c.price)
  IN /\ history' = appendClosedTrade(history, closedTrade)
     /\ appended' = Append(appended, closedTrade)
     /\ trades' = [trades EXCEPT ![c.m] = Null]
     /\ regenTimers' = [regenTimers EXCEPT ![c.m] = @ + 1]
     /\ lastOp' = "Close"

\* reverseTrade up to `await executeTradeOpen`: manuallyCloseTrade on the
\* captured trade, and the new trade the call will install.
ReverseCall(modality) ==
  [kind |-> "reverse", m |-> modality,
   trade |-> ReversedTrade(trades[modality],
                           PriceFor(trades[modality], pricesRef), nextId),
   price |-> PriceFor(trades[modality], pricesRef)]

ReverseBegin(modality) ==
  LET closedTrade == manuallyCloseTrade(trades[modality],
                                        PriceFor(trades[modality], pricesRef))
  IN /\ trades[modality] # Null
     /\ history' = appendClosedTrade(history, closedTrade)
     /\ appended' = Append(appended, closedTrade)
     /\ nextId' = nextId + 1

\* closeTrade(modality, isLive) in simulated mode: executeTradeClose resolves
\* at once, so nothing runs between the call and its continuation.
CloseTrade(modality) ==
  /\ trades[modality] # Null
  /\ CloseResume(CloseCall(modality))
  /\ UNCHANGED <<pricesRef, genInFlight, pending, nextId, arg, ret>>

\* reverseTrade(modality, isLive) in simulated mode.
ReverseTrade(modality) ==
  /\ ReverseBegin(modality)
  /\ trades' = [trades EXCEPT ![modality] = ReverseCall(modality).trade]
  /\ lastOp' = "Reverse"
  /\ UNCHANGED <<pricesRef, regenTimers, genInFlight, pending, arg, ret>>

Remove(seq, i) == SubSeq(seq, 1, i - 1) \o SubSeq(seq, i + 1, Len(seq))

\* closeTrade(modality, true) in live mode, up to the await on the order call.
CloseStart(modality) ==
  /\ trades[modality] # Null
  /\ pending' = Append(pending, CloseCall(modality))
  /\ lastOp' = "Other"
  /\ UNCHANGED <<trades, pricesRef, history, regenTimers,
                 genInFlight, nextId, appended, arg, ret>>

\* closeTrade in live mode, after the order call has settled.
CloseFinish(i) ==
  /\ i \in 1..Len(pending)
  /\ pending[i].kind = "close"
  /\ CloseResume(pending[i])
  /\ pending' = Remove(pending, i)
  /\ UNCHANGED <<pricesRef, genInFlight, nextId, arg, ret>>

\* reverseTrade(modality, true) in live mode, up to the await on the order call.
ReverseStart(modality) ==
  /\ ReverseBegin(modality)
  /\ pending' = Append(pending, ReverseCall(modality))
  /\ lastOp' = "ReverseStart"
  /\ UNCHANGED <<trades, pricesRef, regenTimers, genInFlight, arg, ret>>

\* reverseTrade in live mode, after the order call has settled: install the trade.
ReverseFinish(i) ==
  /\ i \in 1..Len(pending)
  /\ pending[i].kind = "reverse"
  /\ trades' = [trades EXCEPT ![pending[i].m] = pending[i].trade]
  /\ lastOp' = "Reverse"
  /\ pending' = Remove(pending, i)
  /\ UNCHANGED <<pricesRef, history, regenTimers, genInFlight,
                 nextId, appended, arg, ret>>

----------------------------------------------------------------------------
(* The hook after its first render with an empty localStorage *)

\* The hook of a dashboard that has not been used yet.
HookIdle ==
  /\ trades = getEmptyTrades
  /\ pricesRef = [s \in Symbols |-> 0]
  /\ history = <<>>
  /\ regenTimers = [m \in Modalities |-> 0]
  /\ genInFlight = [m \in Modalities |-> 0]
  /\ pending = <<>>
  /\ nextId = 1
  /\ appended = <<>>
  /\ lastOp = "Other"

Init ==
  /\ HookIdle
  /\ arg = Null
  /\ ret = Null

\* The generateNewTrade calls armed (timers) or in flight, over all modalities.
RECURSIVE Outstanding(_)
Outstanding(i) ==
  IF i > Len(ModalitySeq) THEN 0
  ELSE genInFlight[ModalitySeq[i]] + regenTimers[ModalitySeq[i]] + Outstanding(i + 1)

\* The cards the user operates in the simulated specification: one slot is
\* enough for the life of a single trade; SpecLive operates all of them.
SimModalities == {ModalitySeq[1]}

\* Simulated trading (isLive false, or live trading not enabled): the order
\* calls resolve at once.
Next ==
  \/ \E prices \in PriceMaps :
       CheckAndUpdateTrades(prices) /\ Len(appended') <= MaxCloses
  \/ \E prices \in PriceMaps : UpdatePrices(prices)
  \/ \E m \in SimModalities : Outstanding(1) < MaxGenerating /\ GenerateStart(m)
  \/ \E m \in SimModalities : RegenTimerFires(m)
  \/ \E m \in SimModalities, s \in Setups \cup {Null} :
       (s = Null \/ nextId <= MaxTrades) /\ GenerateFinish(m, s)
  \/ \E m \in SimModalities : Len(appended) < MaxCloses /\ CloseTrade(m)
  \/ \E m \in SimModalities : Len(appended) < MaxCloses /\ ReverseTrade(m)

Spec == Init /\ [][Next]_vars

\* Live trading: closeTrade and reverseTrade are suspended while the order is
\* placed, and everything else may run in between.
NextLive ==
  \/ \E prices \in LivePriceMaps :
       CheckAndUpdateTrades(prices) /\ Len(appended') <= MaxLiveCloses
  \/ \E prices \in LivePriceMaps : UpdatePrices(prices)
  \/ \E m \in Modalities : Outstanding(1) < MaxLiveGenerating /\ GenerateStart(m)
  \/ \E m \in Modalities : RegenTimerFires(m)
  \/ \E m \in Modalities, s \in LiveSetups \cup {Null} :
       (s = Null \/ nextId <= MaxLiveTrades) /\ GenerateFinish(m, s)
  \/ \E m \in Modalities : Len(pending) < MaxPending /\ CloseStart(m)
  \/ \E i \in 1..MaxPending : Len(appended) < MaxLiveCloses /\ CloseFinish(i)
  \/ \E m \in Modalities :
       Len(pending) < MaxPending /\ Len(appended) < MaxLiveCloses /\ ReverseStart(m)
  \/ \E i \in 1..MaxPending : ReverseFinish(i)

SpecLive == Init /\ [][NextLive]_vars

----------------------------------------------------------------------------
(* The closed-trade history on its own: appendClosedTrade applied to one    *)
(* ClosedTrade after another, past the length the storage keeps.           *)

\* The n-th ClosedTrade handed to the storage: trade n of the first modality,
\* closed by hand at its first target.
NthClosedTrade(n) ==
  LET setup == buildTradeSetupFromSymbol("BTCUSDT", IF n % 2 = 1 THEN "LONG" ELSE "SHORT",
                                         100, 8)
  IN manuallyCloseTrade(NewTradeFromSetup(setup, ModalitySeq[1], n), setup.tp1)

\* tradeStorage.appendClosedTrade(trade)
AppendClosedTrade(closedTrade) ==
  /\ history' = appendClosedTrade(history, closedTrade)
  /\ appended' = Append(appended, closedTrade)
  /\ lastOp' = "Append"
  /\ UNCHANGED <<trades, pricesRef, regenTimers, genInFlight, pending, nextId, arg, ret>>

NextHistory ==
  /\ Len(appended) < MaxAppends
  /\ AppendClosedTrade(NthClosedTrade(Len(appended) + 1))

SpecHistory == Init /\ [][NextHistory]_vars

----------------------------------------------------------------------------
(* Properties *)

\* The losing side of a trade at price p: at or beyond `level`.
Beyond(trade, level, p) ==
  IF trade.direction = "LONG" THEN p <= level ELSE p >= level
\* The winning side of a trade at price p: `level` reached.
Reached(trade, level, p) ==
  IF trade.direction = "LONG" THEN p >= level ELSE p <= level
\* The profit of a trade per unit of entry price when it exits at price p.
Gain(trade, p) ==
  IF trade.direction = "LONG" THEN p - trade.entry ELSE trade.entry - p
\* Equality of two rationals.
RatEq(a, b) == a.n * b.d = b.n * a.d
\* closed is the ClosedTrade of trade with the given status and exit price,
\* its other fields those of `fields`.
IsClosedOf(closed, trade, fields, status, exit) ==
  /\ closed.id = trade.id /\ closed.modality = trade.modality
  /\ closed.symbol = trade.symbol /\ closed.direction = trade.direction
  /\ closed.entry = trade.entry /\ closed.stopLoss = trade.stopLoss
  /\ closed.tp1 = trade.tp1 /\ closed.tp2 = trade.tp2 /\ closed.tp3 = trade.tp3
  /\ closed.currentSL = trade.currentSL /\ closed.positionSize = trade.positionSize
  /\ closed.tp1Hit = fields.tp1Hit /\ closed.tp2Hit = fields.tp2Hit
  /\ closed.tp3Hit = fields.tp3Hit
  /\ closed.status = status /\ closed.closePrice = exit
  /\ RatEq(closed.pnlPercent, [n |-> Gain(trade, exit) * 100, d |-> trade.entry])
  /\ RatEq(closed.pnl, [n |-> Gain(trade, exit) * trade.positionSize, d |-> trade.entry])
\* The positions of the ClosedTrades the current step has appended for trade.
AppendedNow(trade) ==
  {i \in (Len(appended) + 1)..Len(appended') : appended'[i].id = trade.id}
\* The current step has appended exactly one ClosedTrade for trade, it satisfies
\* IsClosedOf and the stored history holds it.
ClosedNow(trade, fields, status, exit) ==
  /\ Cardinality(AppendedNow(trade)) = 1
  /\ \A i \in AppendedNow(trade) :
       /\ IsClosedOf(appended'[i], trade, fields, status, exit)
       /\ \E j \in 1..Len(history') : history'[j] = appended'[i]
\* The tick price of a trade's symbol in the step that has just been taken.
TickPrice(trade) == pricesRef'[trade.symbol]
\* The newest ClosedTrade.
LastClosed == appended[Len(appended)]

\* C1: once tp1Hit is set the stop of the trade stays at its entry for as long
\* as it is in its slot, and no target flag of a trade is ever cleared.
C1_BreakevenStopAndMonotoneFlags ==
  [][\A m \in Modalities :
       /\ (trades'[m] # Null /\ trades'[m].tp1Hit)
            => trades'[m].currentSL = trades'[m].entry
       /\ (trades[m] # Null /\ trades'[m] # Null /\ trades'[m].id = trades[m].id)
            => /\ trades[m].tp1Hit => trades'[m].tp1Hit
               /\ trades[m].tp2Hit => trades'[m].tp2Hit
               /\ trades[m].tp3Hit => trades'[m].tp3Hit]_vars

\* A trade whose first target was hit, after a later tick that has set the
\* second one.
C1_Witness ==
  /\ lastOp = "Tick"
  /\ \E m \in Modalities :
       /\ trades[m] # Null
       /\ trades[m].status = "TP2Hit" /\ trades[m].tp1Hit
       /\ trades[m].currentSL = trades[m].entry
       /\ trades[m].stopLoss # trades[m].entry

\* C2: every slot holds no trade or one trade whose modality field is the slot,
\* under overlapping generateNewTrade, closeTrade and reverseTrade calls; the
\* same holds of the trade a suspended reverseTrade is about to install.
C2_SlotHoldsItsOwnTrade ==
  /\ \A m \in Modalities :
       trades[m] = Null \/ (trades[m].id \in 1..(nextId - 1) /\ trades[m].modality = m)
  /\ \A i \in 1..Len(pending) : pending[i].trade.modality = pending[i].m

\* Both slots occupied while a closeTrade or reverseTrade call is suspended.
C2_Witness ==
  /\ \A m \in Modalities : trades[m] # Null
  /\ pending # <<>>

\* C3: a tick that breaches the stop (at currentSL) closes the trade: one
\* ClosedTrade with status SLHit, exit price and PnL at currentSL and the
\* target flags the trade had; the slot is cleared.
C3_StopLossFirst ==
  [][lastOp' = "Tick" =>
       \A m \in Modalities :
         (/\ trades[m] # Null
          /\ TickPrice(trades[m]) # 0
          /\ Beyond(trades[m], trades[m].currentSL, TickPrice(trades[m])))
         => /\ trades'[m] = Null
            /\ ClosedNow(trades[m], trades[m], "SLHit", trades[m].currentSL)]_vars

\* A stop-loss exit on a tick at which the first target condition holds too.
C3_Witness ==
  /\ lastOp = "Tick"
  /\ appended # <<>>
  /\ LastClosed.status = "SLHit"
  /\ LastClosed.closePrice = LastClosed.currentSL
  /\ Reached(LastClosed, LastClosed.tp1, pricesRef[LastClosed.symbol])
  /\ ~LastClosed.tp1Hit /\ ~LastClosed.tp2Hit /\ ~LastClosed.tp3Hit
  /\ trades[LastClosed.modality] = Null

\* C4: a tick that neither breaches the stop nor reaches tp3, and reaches tp1
\* on a trade whose tp1Hit is false, leaves the trade in its slot with
\* tp1Hit = true, status TP1Hit and currentSL = entry.
C4_FirstTargetMovesStop ==
  [][lastOp' = "Tick" =>
       \A m \in Modalities :
         (/\ trades[m] # Null
          /\ TickPrice(trades[m]) # 0
          /\ ~Beyond(trades[m], trades[m].currentSL, TickPrice(trades[m]))
          /\ ~Reached(trades[m], trades[m].tp3, TickPrice(trades[m]))
          /\ Reached(trades[m], trades[m].tp1, TickPrice(trades[m]))
          /\ ~trades[m].tp1Hit)
         => /\ trades'[m] # Null
            /\ trades'[m].id = trades[m].id
            /\ trades'[m].tp1Hit
            /\ trades'[m].status = "TP1Hit"
            /\ trades'[m].currentSL = trades[m].entry
            /\ AppendedNow(trades[m]) = {}]_vars

\* A trade just after the tick that hit its first target only.
C4_Witness ==
  /\ lastOp = "Tick"
  /\ \E m \in Modalities :
       /\ trades[m] # Null
       /\ trades[m].tp1Hit /\ ~trades[m].tp2Hit
       /\ trades[m].status = "TP1Hit"
       /\ trades[m].currentSL = trades[m].entry
       /\ trades[m].stopLoss # trades[m].entry
       /\ Reached(trades[m], trades[m].tp1, pricesRef[trades[m].symbol])

\* C5: once tp1Hit is set, a tick at or beyond the entry on the losing side
\* closes the trade with status SLHit at the entry, with pnl and pnlPercent 0.
C5_BreakevenExit ==
  [][lastOp' = "Tick" =>
       \A m \in Modalities :
         (/\ trades[m] # Null
          /\ trades[m].tp1Hit
          /\ TickPrice(trades[m]) # 0
          /\ Beyond(trades[m], trades[m].entry, TickPrice(trades[m])))
         => /\ trades'[m] = Null
            /\ ClosedNow(trades[m], trades[m], "SLHit", trades[m].entry)
            /\ \A i \in AppendedNow(trades[m]) :
                 appended'[i].pnl.n = 0 /\ appended'[i].pnlPercent.n = 0]_vars

\* A breakeven exit on a tick beyond the original stop.
C5_Witness ==
  /\ lastOp = "Tick"
  /\ appended # <<>>
  /\ LastClosed.status = "SLHit" /\ LastClosed.tp1Hit
  /\ LastClosed.closePrice = LastClosed.entry
  /\ LastClosed.pnl.n = 0
  /\ Beyond(LastClosed, LastClosed.stopLoss, pricesRef[LastClosed.symbol])
  /\ pricesRef[LastClosed.symbol] # LastClosed.stopLoss

\* C6: a tick that does not breach the stop and reaches tp3 closes the trade:
\* one ClosedTrade with status TP3Hit, all three flags set, exit price and PnL
\* at tp3; the slot is cleared.
C6_ThirdTargetCloses ==
  [][lastOp' = "Tick" =>
       \A m \in Modalities :
         (/\ trades[m] # Null
          /\ TickPrice(trades[m]) # 0
          /\ ~Beyond(trades[m], trades[m].currentSL, TickPrice(trades[m]))
          /\ Reached(trades[m], trades[m].tp3, TickPrice(trades[m])))
         => /\ trades'[m] = Null
            /\ ClosedNow(trades[m], [tp1Hit |-> TRUE, tp2Hit |-> TRUE, tp3Hit |-> TRUE],
                         "TP3Hit", trades[m].tp3)]_vars

\* A tp3 exit on a tick past tp3.
C6_Witness ==
  /\ lastOp = "Tick"
  /\ appended # <<>>
  /\ LastClosed.status = "TP3Hit"
  /\ LastClosed.tp1Hit /\ LastClosed.tp2Hit /\ LastClosed.tp3Hit
  /\ LastClosed.closePrice = LastClosed.tp3
  /\ LastClosed.closePrice # pricesRef[LastClosed.symbol]
  /\ trades[LastClosed.modality] = Null

\* C7: closing a trade by hand (closeTrade, and the closing half of
\* reverseTrade) appends one ClosedTrade with status ManuallyClosed, the
\* price of the call as exit price, pnlPercent = gain / entry * 100 with the
\* gain signed by the direction, and pnl = pnlPercent / 100 * positionSize.
C7_ManualClosePnL ==
  [][lastOp' \in {"Close", "Reverse"} =>
       \E m \in Modalities :
         /\ trades[m] # Null
         /\ ClosedNow(trades[m], trades[m], "ManuallyClosed",
                      PriceFor(trades[m], pricesRef))
         /\ \A i \in AppendedNow(trades[m]) :
              appended'[i].pnl.n * appended'[i].pnlPercent.d * 100
                = appended'[i].pnlPercent.n * trades[m].positionSize * appended'[i].pnl.d]_vars

\* A short trade past its second target closed by hand away from its entry.
C7_Witness ==
  /\ lastOp = "Close"
  /\ appended # <<>>
  /\ LastClosed.status = "ManuallyClosed"
  /\ LastClosed.direction = "SHORT"
  /\ LastClosed.tp2Hit
  /\ LastClosed.pnl.n > 0

C9_NoTradeLeavesUnrecorded ==
  [][\A m \in Modalities :
       (trades[m] # Null /\ (trades'[m] = Null \/ trades'[m].id # trades[m].id))
         => \E i \in 1..Len(appended') : appended'[i].id = trades[m].id]_vars

C11_StatusAgreesWithFlags ==
  \A m \in Modalities :
    trades[m] # Null =>
      trades[m].status = IF trades[m].tp2Hit THEN "TP2Hit"
                         ELSE IF trades[m].tp1Hit THEN "TP1Hit"
                         ELSE "Active"

\* C19: a tick that sets tp2Hit on a trade neither sets tp1Hit nor moves
\* currentSL on that trade: at most one of the target checks takes effect.
C19_AtMostOneCheckPerTick ==
  [][lastOp' = "Tick" =>
       \A m \in Modalities :
         (/\ trades[m] # Null /\ trades'[m] # Null
          /\ trades'[m].id = trades[m].id
          /\ ~trades[m].tp2Hit /\ trades'[m].tp2Hit)
         => /\ trades'[m].tp1Hit = trades[m].tp1Hit
            /\ trades'[m].currentSL = trades[m].currentSL]_vars

\* C20: a tick without a price for the symbol of a trade leaves the trade, the
\* history and the timers of its slot alone, and still evaluates the trades
\* whose symbols have a price: one whose stop is breached leaves its slot,
\* with a ClosedTrade appended and a regeneration armed.
C20_MissingPriceIsNoOp ==
  [][lastOp' = "Tick" =>
       \A m \in Modalities :
         trades[m] # Null =>
           IF TickPrice(trades[m]) = 0
           THEN /\ trades'[m] = trades[m]
                /\ AppendedNow(trades[m]) = {}
                /\ regenTimers'[m] = regenTimers[m]
           ELSE Beyond(trades[m], trades[m].currentSL, TickPrice(trades[m]))
                  => /\ trades'[m] = Null
                     /\ AppendedNow(trades[m]) # {}
                     /\ regenTimers'[m] = regenTimers[m] + 1]_vars

\* After a tick: the trade of the first slot has no price and is in place,
\* the trade of a later slot had a price and has been closed.
C20_Witness ==
  /\ lastOp = "Tick"
  /\ appended # <<>>
  /\ trades[ModalitySeq[1]] # Null
  /\ pricesRef[trades[ModalitySeq[1]].symbol] = 0
  /\ LastClosed.modality # ModalitySeq[1]
  /\ LastClosed.status \in {"SLHit", "TP3Hit"}
  /\ pricesRef[LastClosed.symbol] # 0
  /\ trades[LastClosed.modality] = Null
  /\ regenTimers[LastClosed.modality] > 0

----------------------------------------------------------------------------
(* pairScoringEngine: scoreSymbolsForModality, in its two versions *)

\* The longest symbol list ranked.
MaxSymbols == 9
\* BATCH_SIZE of the two versions.
BATCH_SIZE == 8
BATCH_SIZE_EarlyStop == 5
\* What scoreSymbol may settle to for a symbol: Null (fewer than 20 candles, or
\* an error caught by its try/catch) or a ScoredSymbol with one of these scores.
Scores == {40, 70}
Limits == {0, 1, 3}

\* A symbol list of length n, each symbol with the outcome f[i] of its
\* scoreSymbol call (-1 for null): symbol i is the i-th of the list.
SymbolList(n, f) == [i \in 1..n |-> [symbol |-> i, score |-> f[i]]]

\* `const x = e`: the constant is computed once, where it is declared.
\* Const({body : x \in {e}}) is body with x standing for the value of e.
Const(S) == CHOOSE v \in S : TRUE

\* The loop over batchResults given up at the first value that is null.
Fulfilled_untilFailure(batch) ==
  LET bad == {i \in 1..Len(batch) : batch[i].score = -1}
  IN SubSeq(batch, 1, IF bad = {} THEN Len(batch)
                      ELSE (CHOOSE i \in bad : \A j \in bad : i <= j) - 1)

\* The loop over batchResults: the fulfilled, non-null values in batch order.
Fulfilled(batch) == SelectSeq(batch, LAMBDA r : r.score # -1)

\* Insertion that puts x before the entries of equal score.
RECURSIVE InsertByScore_beforeEqual(_, _)
InsertByScore_beforeEqual(sorted, x) ==
  IF sorted = <<>> THEN <<x>>
  ELSE IF Head(sorted).score > x.score
       THEN <<Head(sorted)>> \o InsertByScore_beforeEqual(Tail(sorted), x)
       ELSE <<x>> \o sorted

\* Array.prototype.sort((a, b) => b.score - a.score) is a stable sort: an
\* entry goes after every entry whose score is not lower.
RECURSIVE InsertByScore(_, _)
InsertByScore(sorted, x) ==
  IF sorted = <<>> THEN <<x>>
  ELSE IF Head(sorted).score >= x.score
       THEN <<Head(sorted)>> \o InsertByScore(Tail(sorted), x)
       ELSE <<x>> \o sorted

RECURSIVE SortByScoreDesc(_)
SortByScoreDesc(results) ==
  IF results = <<>> THEN <<>>
  ELSE Const({ InsertByScore(sorted, results[Len(results)])
               : sorted \in {SortByScoreDesc(SubSeq(results, 1, Len(results) - 1))} })

\* Array.prototype.slice(0, limit) for limit >= 0.
Slice0(seq, limit) == SubSeq(seq, 1, IF limit < Len(seq) THEN limit ELSE Len(seq))

\* The batch loop from offset i (0-based) on: stopAt is the number of results
\* at which the loop breaks, -1 when the version has no such break.
RECURSIVE ScoreBatches(_, _, _, _, _)
ScoreBatches(symbols, i, results, batchSize, stopAt) ==
  IF i >= Len(symbols) THEN results
  ELSE
    LET last == IF i + batchSize < Len(symbols) THEN i + batchSize ELSE Len(symbols)
        more == results \o Fulfilled(SubSeq(symbols, i + 1, last))
    IN IF stopAt # -1 /\ Len(more) >= stopAt THEN more
       ELSE ScoreBatches(symbols, i + batchSize, more, batchSize, stopAt)

\* scoreSymbolsForModality of services/ai/pairScoringEngine.ts (batches of 8).
scoreSymbolsForModality(symbols, limit) ==
  Slice0(SortByScoreDesc(ScoreBatches(symbols, 0, <<>>, BATCH_SIZE, -1)), limit)

\* scoreSymbolsForModality of the version that stops once it has limit * 3
\* results (batches of 5).
scoreSymbolsForModalityEarlyStop(symbols, limit) ==
  Slice0(SortByScoreDesc(ScoreBatches(symbols, 0, <<>>, BATCH_SIZE_EarlyStop, limit * 3)),
         limit)

InitRanking ==
  /\ HookIdle
  /\ \E n \in 0..MaxSymbols, l \in Limits :
       \E f \in [1..n -> Scores \cup {-1}] :
         arg = [symbols |-> SymbolList(n, f), limit |-> l]
  /\ ret = Null

ScoreSymbolsForModality ==
  /\ ret = Null
  /\ ret' = [by |-> "batch8", list |-> scoreSymbolsForModality(arg.symbols, arg.limit)]
  /\ UNCHANGED <<trades, pricesRef, history, regenTimers, genInFlight,
                 pending, nextId, appended, lastOp, arg>>

ScoreSymbolsForModalityEarlyStop ==
  /\ ret = Null
  /\ ret' = [by |-> "batch5", list |-> scoreSymbolsForModalityEarlyStop(arg.symbols, arg.limit)]
  /\ UNCHANGED <<trades, pricesRef, history, regenTimers, genInFlight,
                 pending, nextId, appended, lastOp, arg>>

NextRanking ==
  \/ ScoreSymbolsForModality
  \/ ScoreSymbolsForModalityEarlyStop

SpecRanking == InitRanking /\ [][NextRanking]_vars

\* C12: the list returned by either version has at most `limit` entries, is
\* sorted by descending score, keeps entries of equal score in the order of
\* their symbols in the input, holds only symbols that were scored, and is
\* the empty list for an empty input.
C12_RankingSortedStable ==
  ret # Null =>
    /\ Len(ret.list) <= arg.limit
    /\ \A i, j \in 1..Len(ret.list) :
         i < j => \/ ret.list[i].score > ret.list[j].score
                  \/ /\ ret.list[i].score = ret.list[j].score
                     /\ ret.list[i].symbol < ret.list[j].symbol
    /\ \A i \in 1..Len(ret.list) :
         /\ ret.list[i].symbol \in 1..Len(arg.symbols)
         /\ arg.symbols[ret.list[i].symbol] = ret.list[i]
         /\ ret.list[i].score \in Scores
    /\ (arg.symbols = <<>> => ret.list = <<>>)

\* A ranking of `limit` entries that has a tie in it and has left out scored
\* symbols, from a list of more than one batch.
C12_Witness ==
  /\ ret # Null
  /\ Len(arg.symbols) > BATCH_SIZE
  /\ Len(ret.list) = arg.limit
  /\ Len(SelectSeq(arg.symbols, LAMBDA r : r.score \in Scores)) > arg.limit
  /\ \E i \in 1..(Len(ret.list) - 1) : ret.list[i].score = ret.list[i + 1].score

\* C13: with batches of 8 and no early stop, the call returns what it returns
\* for the list without the symbols whose scoreSymbol failed.
C13_FailureOnlyExcludes ==
  (ret # Null /\ ret.by = "batch8") =>
    ret.list = scoreSymbolsForModality(SelectSeq(arg.symbols, LAMBDA r : r.score \in Scores),
                                       arg.limit)

\* A call in which a symbol fails in each batch and symbols after the failing
\* ones are returned.
C13_Witness ==
  /\ ret # Null /\ ret.by = "batch8"
  /\ arg.symbols # <<>>
  /\ arg.symbols[1].score = -1
  /\ Len(arg.symbols) > BATCH_SIZE
  /\ arg.symbols[BATCH_SIZE + 1].score # -1
  /\ arg.symbols[BATCH_SIZE].score = -1
  /\ \E i \in 1..Len(ret.list) : ret.list[i].symbol = BATCH_SIZE + 1

----------------------------------------------------------------------------
(* Number arithmetic.  A Number is a binary floating-point value; the      *)
(* model keeps Precision significand bits (the build's Number has 53) and  *)
(* rounds every result to nearest, ties to even.  A finite Number is an    *)
(* exact rational [n, d] in lowest terms with d a power of two; NaN is     *)
(* [0, 0] and Infinity is [1, 0] (the sign of an infinity is not kept).    *)

\* significand bits of a Number in the model
Precision == 6

RECURSIVE Pow2(_)
Pow2(k) == IF k = 0 THEN 1 ELSE 2 * Pow2(k - 1)

NaN == [n |-> 0, d |-> 0]
Infinity == [n |-> 1, d |-> 0]
Zero == [n |-> 0, d |-> 1]
IsFinite(a) == a.d # 0

\* n / d in lowest terms, for d a power of two.
RECURSIVE Lowest(_, _)
Lowest(n, d) ==
  IF d > 1 /\ n % 2 = 0 THEN Lowest(n \div 2, d \div 2) ELSE [n |-> n, d |-> d]

\* the least significand of a normal Number and the bound of the significands
MinSignificand == Pow2(Precision - 1)
SupSignificand == Pow2(Precision)

\* The exponent e with 2^(Precision-1) <= (n/d) / 2^e < 2^Precision, and n/d
\* scaled by it, for n, d > 0.
RECURSIVE Scaled(_, _, _)
Scaled(n, d, e) ==
  IF n < MinSignificand * d THEN Scaled(2 * n, d, e - 1)
  ELSE IF n >= SupSignificand * d THEN Scaled(n, 2 * d, e + 1)
  ELSE [n |-> n, d |-> d, e |-> e]

\* n / d rounded to an integer, ties to even, for n >= 0, d > 0.
RoundHalfEven(n, d) ==
  LET q == n \div d
      r == n % d
  IN IF 2 * r < d THEN q
     ELSE IF 2 * r > d THEN q + 1
     ELSE IF q % 2 = 0 THEN q ELSE q + 1

\* The Number nearest to the rational n / d (d > 0).
Fl(n, d) ==
  IF n = 0 THEN Zero
  ELSE LET sgn == IF n < 0 THEN -1 ELSE 1
           s == Scaled(sgn * n, d, 0)
           m == RoundHalfEven(s.n, s.d)
       IN IF s.e >= 0 THEN [n |-> sgn * m * Pow2(s.e), d |-> 1]
          ELSE Lowest(sgn * m, Pow2(-s.e))

\* An integer literal or a decimal string read by parseFloat.
Num(k) == Fl(k, 1)

\* a + b, a - b, a * b, a / b of finite Numbers a and b
NumAdd(a, b) == Fl(a.n * b.d + b.n * a.d, a.d * b.d)
NumSub(a, b) == Fl(a.n * b.d - b.n * a.d, a.d * b.d)
NumMul(a, b) == Fl(a.n * b.n, a.d * b.d)
NumDiv(a, b) ==
  IF b.n = 0 THEN (IF a.n = 0 THEN NaN ELSE Infinity)
  ELSE IF b.n < 0 THEN Fl(-(a.n * b.d), a.d * (-b.n))
  ELSE Fl(a.n * b.d, a.d * b.n)
\* Math.abs, Math.max
NumAbs(a) == [n |-> Abs(a.n), d |-> a.d]
\* a < b, a > b, a >= b; every comparison with NaN is false
NumLt(a, b) ==
  IF a.d = 0 \/ b.d = 0
  THEN a # NaN /\ b # NaN /\ a.d # 0 /\ b.d = 0
  ELSE a.n * b.d < b.n * a.d
NumGt(a, b) == NumLt(b, a)
NumGe(a, b) == a # NaN /\ b # NaN /\ ~NumLt(a, b)
NumMax(a, b) == IF NumLt(a, b) THEN b ELSE a
NumMin(a, b) == IF NumLt(b, a) THEN b ELSE a
NumLe(a, b) == a # NaN /\ b # NaN /\ ~NumLt(b, a)
\* Math.round of the rational n / d and of a finite Number: floor(x + 0.5)
MathRound(n, d) == (2 * n + d) \div (2 * d)
NumRound(a) == MathRound(a.n, a.d)
\* the literals 1.5, 2.5 and 4.5
OneAndHalf == [n |-> 3, d |-> 2]
TwoAndHalf == [n |-> 5, d |-> 2]
FourAndHalf == [n |-> 9, d |-> 2]

----------------------------------------------------------------------------
(* smcIndicators: candles and the six indicators.  Arrays are sequences;   *)
(* the source's 0-based index i is position i + 1.                         *)

\* parseKlines: every field of a kline is a decimal string read by parseFloat.
\* A kline is [open, high, low, close, volume] with integer fields.
parseKlines(klines) ==
  [i \in 1..Len(klines) |->
     [open |-> Num(klines[i].open), high |-> Num(klines[i].high),
      low |-> Num(klines[i].low), close |-> Num(klines[i].close),
      volume |-> Num(klines[i].volume)]]

\* array.slice(-k), k >= 1: the last k elements, or all of them
SliceLast(seq, k) ==
  IF Len(seq) <= k THEN seq ELSE SubSeq(seq, Len(seq) - k + 1, Len(seq))

\* the result of an indicator that detected nothing
NotDetected == [detected |-> FALSE, direction |-> "null", level |-> Zero, index |-> -1]
NoZone ==
  [detected |-> FALSE, direction |-> "null", top |-> Zero, bottom |-> Zero,
   midpoint |-> Zero]
NoChange == [detected |-> FALSE, direction |-> "null", level |-> Zero]

\* recent[i] is a swing high / swing low (0-based i, 1 <= i <= length - 2)
SwingHighAt(recent, i) ==
  /\ NumGt(recent[i + 1].high, recent[i].high)
  /\ NumGt(recent[i + 1].high, recent[i + 2].high)
SwingLowAt(recent, i) ==
  /\ NumLt(recent[i + 1].low, recent[i].low)
  /\ NumLt(recent[i + 1].low, recent[i + 2].low)

\* detectBOS, the loop over i = 1 .. recent.length - 2: the highest swing high
\* and the lowest swing low and their indices (-1 with none; the levels then
\* stand for -Infinity and Infinity and are never read).
RECURSIVE BOSLoop(_, _, _)
BOSLoop(recent, i, acc) ==
  IF i >= Len(recent) - 1 THEN acc
  ELSE LET a1 == IF /\ SwingHighAt(recent, i)
                    /\ (acc.swingHighIdx = -1
                        \/ NumGt(recent[i + 1].high, acc.lastSwingHigh))
                 THEN [acc EXCEPT !.lastSwingHigh = recent[i + 1].high,
                                  !.swingHighIdx = i]
                 ELSE acc
           a2 == IF /\ SwingLowAt(recent, i)
                    /\ (a1.swingLowIdx = -1
                        \/ NumLt(recent[i + 1].low, a1.lastSwingLow))
                 THEN [a1 EXCEPT !.lastSwingLow = recent[i + 1].low,
                                 !.swingLowIdx = i]
                 ELSE a1
       IN BOSLoop(recent, i + 1, a2)

\* detectBOS with the bearish break looked at before the bullish one
detectBOS_bearishFirst(candles) ==
  IF Len(candles) < 10 THEN NotDetected
  ELSE LET recent == SliceLast(candles, 20)
           s == BOSLoop(recent, 1, [lastSwingHigh |-> Zero, swingHighIdx |-> -1,
                                    lastSwingLow |-> Zero, swingLowIdx |-> -1])
           lastCandle == recent[Len(recent)]
       IN IF s.swingLowIdx > 0 /\ NumLt(lastCandle.close, s.lastSwingLow)
          THEN [detected |-> TRUE, direction |-> "bearish",
                level |-> s.lastSwingLow, index |-> s.swingLowIdx]
          ELSE IF s.swingHighIdx > 0 /\ NumGt(lastCandle.close, s.lastSwingHigh)
          THEN [detected |-> TRUE, direction |-> "bullish",
                level |-> s.lastSwingHigh, index |-> s.swingHighIdx]
          ELSE NotDetected

\* detectBOS
detectBOS(candles) ==
  IF Len(candles) < 10 THEN NotDetected
  ELSE LET recent == SliceLast(candles, 20)
           s == BOSLoop(recent, 1, [lastSwingHigh |-> Zero, swingHighIdx |-> -1,
                                    lastSwingLow |-> Zero, swingLowIdx |-> -1])
           lastCandle == recent[Len(recent)]
       IN IF s.swingHighIdx > 0 /\ NumGt(lastCandle.close, s.lastSwingHigh)
          THEN [detected |-> TRUE, direction |-> "bullish",
                level |-> s.lastSwingHigh, index |-> s.swingHighIdx]
          ELSE IF s.swingLowIdx > 0 /\ NumLt(lastCandle.close, s.lastSwingLow)
          THEN [detected |-> TRUE, direction |-> "bearish",
                level |-> s.lastSwingLow, index |-> s.swingLowIdx]
          ELSE NotDetected

\* detectFVG, the loop from i = length - 3 down to max(0, length - 15)
RECURSIVE FVGLoop(_, _)
FVGLoop(candles, i) ==
  IF i < (IF Len(candles) - 15 > 0 THEN Len(candles) - 15 ELSE 0) THEN NoZone
  ELSE LET c1 == candles[i + 1]
           c3 == candles[i + 3]
       IN IF NumGt(c3.low, c1.high)
          THEN [detected |-> TRUE, direction |-> "bullish",
                top |-> c3.low, bottom |-> c1.high,
                midpoint |-> NumDiv(NumAdd(c3.low, c1.high), Num(2))]
          ELSE IF NumLt(c3.high, c1.low)
          THEN [detected |-> TRUE, direction |-> "bearish",
                top |-> c1.low, bottom |-> c3.high,
                midpoint |-> NumDiv(NumAdd(c1.low, c3.high), Num(2))]
          ELSE FVGLoop(candles, i - 1)

\* detectFVG
detectFVG(candles) ==
  IF Len(candles) < 3 THEN NoZone ELSE FVGLoop(candles, Len(candles) - 3)

\* detectOrderBlocks, the loop from i = recent.length - 4 down to 1
RECURSIVE OBLoop(_, _)
OBLoop(recent, i) ==
  IF i < 1 THEN NoZone
  ELSE LET c == recent[i + 1]
           next == recent[i + 2]
           bodySize == NumAbs(NumSub(c.close, c.open))
           totalRange == NumSub(c.high, c.low)
           isStrongCandle == NumGt(bodySize, NumMul(totalRange, Fl(3, 5)))
       IN IF ~isStrongCandle THEN OBLoop(recent, i - 1)
          ELSE IF /\ NumLt(c.close, c.open) /\ NumGt(next.close, next.open)
                  /\ NumGt(next.close, c.high)
          THEN [detected |-> TRUE, direction |-> "bullish",
                top |-> c.open, bottom |-> c.close,
                midpoint |-> NumDiv(NumAdd(c.open, c.close), Num(2))]
          ELSE IF /\ NumGt(c.close, c.open) /\ NumLt(next.close, next.open)
                  /\ NumLt(next.close, c.low)
          THEN [detected |-> TRUE, direction |-> "bearish",
                top |-> c.close, bottom |-> c.open,
                midpoint |-> NumDiv(NumAdd(c.close, c.open), Num(2))]
          ELSE OBLoop(recent, i - 1)

\* detectOrderBlocks
detectOrderBlocks(candles) ==
  IF Len(candles) < 5 THEN NoZone
  ELSE LET recent == SliceLast(candles, 20) IN OBLoop(recent, Len(recent) - 4)

\* calculateRSI, the loop over i = 1 .. closes.length - 1 (closes of `recent`)
RECURSIVE RSILoop(_, _, _)
RSILoop(recent, i, acc) ==
  IF i >= Len(recent) THEN acc
  ELSE LET diff == NumSub(recent[i + 1].close, recent[i].close)
       IN RSILoop(recent, i + 1,
                  IF NumGt(diff, Zero)
                  THEN [acc EXCEPT !.gains = NumAdd(acc.gains, diff)]
                  ELSE [acc EXCEPT !.losses = NumAdd(acc.losses, NumAbs(diff))])

\* calculateRSI
calculateRSI(candles, period) ==
  IF Len(candles) < period + 1 THEN Num(50)
  ELSE LET s == RSILoop(SliceLast(candles, period + 1), 1,
                        [gains |-> Zero, losses |-> Zero])
           avgGain == NumDiv(s.gains, Num(period))
           avgLoss == NumDiv(s.losses, Num(period))
       IN IF avgLoss = Zero THEN Num(100)
          ELSE NumSub(Num(100),
                      NumDiv(Num(100), NumAdd(Num(1), NumDiv(avgGain, avgLoss))))

\* calculateATR, the loop over i = 1 .. recent.length - 1
RECURSIVE ATRLoop(_, _, _)
ATRLoop(recent, i, atrSum) ==
  IF i >= Len(recent) THEN atrSum
  ELSE LET tr == NumMax(NumMax(NumSub(recent[i + 1].high, recent[i + 1].low),
                               NumAbs(NumSub(recent[i + 1].high, recent[i].close))),
                        NumAbs(NumSub(recent[i + 1].low, recent[i].close)))
       IN ATRLoop(recent, i + 1, NumAdd(atrSum, tr))

\* calculateATR with 0 returned below `period` candles only.
calculateATR_guardPeriod(candles, period) ==
  IF Len(candles) < period THEN Zero
  ELSE NumDiv(ATRLoop(SliceLast(candles, period + 1), 1, Zero), Num(period))

\* calculateATR
calculateATR(candles, period) ==
  IF Len(candles) < period + 1 THEN Zero
  ELSE NumDiv(ATRLoop(SliceLast(candles, period + 1), 1, Zero), Num(period))

\* detectCHOCH, the loop over i = 1 .. recent.length - 2: the swing highs and
\* the swing lows in the order met
RECURSIVE CHOCHLoop(_, _, _)
CHOCHLoop(recent, i, acc) ==
  IF i >= Len(recent) - 1 THEN acc
  ELSE LET a1 == IF SwingHighAt(recent, i)
                 THEN [acc EXCEPT !.swingHighs = Append(@, recent[i + 1].high)]
                 ELSE acc
           a2 == IF SwingLowAt(recent, i)
                 THEN [a1 EXCEPT !.swingLows = Append(@, recent[i + 1].low)]
                 ELSE a1
       IN CHOCHLoop(recent, i + 1, a2)

\* detectCHOCH
detectCHOCH(candles) ==
  IF Len(candles) < 15 THEN NoChange
  ELSE LET recent == SliceLast(candles, 15)
           s == CHOCHLoop(recent, 1, [swingHighs |-> <<>>, swingLows |-> <<>>])
           lastCandle == recent[Len(recent)]
           nl == Len(s.swingLows)
           nh == Len(s.swingHighs)
       IN IF /\ nl >= 2
             /\ NumLt(s.swingLows[nl], s.swingLows[nl - 1])
             /\ NumLt(lastCandle.close, s.swingLows[nl])
          THEN [detected |-> TRUE, direction |-> "bearish", level |-> s.swingLows[nl]]
          ELSE IF /\ nh >= 2
                  /\ NumGt(s.swingHighs[nh], s.swingHighs[nh - 1])
                  /\ NumGt(lastCandle.close, s.swingHighs[nh])
          THEN [detected |-> TRUE, direction |-> "bullish", level |-> s.swingHighs[nh]]
          ELSE NoChange

----------------------------------------------------------------------------
(* The klines getKlines may return.  A kline opens at the previous close;  *)
(* its kind gives the body and the wicks.                                  *)

\* candles of the longest kline list
MaxCandles == 21
\* the close before the first kline
BasePrice == 32
\* the volume of a kline of ordinary volume
BaseVolume == 8

\* kinds of kline: flat, up 1, down 1, up 2, down 2 (bodies without wicks),
\* and a doji with a wick of 1 on either side
Kinds == {"F", "U", "D", "B", "S", "W"}

\* The kline of the given kind after a close at p.
Kline(kind, p, v) ==
  LET c == CASE kind = "U" -> p + 1
             [] kind = "D" -> p - 1
             [] kind = "B" -> p + 2
             [] kind = "S" -> p - 2
             [] OTHER -> p
      w == IF kind = "W" THEN 1 ELSE 0
  IN [open |-> p, close |-> c,
      high |-> (IF c > p THEN c ELSE p) + w,
      low |-> (IF c < p THEN c ELSE p) - w,
      volume |-> v]

\* The klines of the given kinds, in time order.
RECURSIVE KlinesOf(_, _, _)
KlinesOf(kinds, p, acc) ==
  IF Len(acc) = Len(kinds) THEN acc
  ELSE LET k == Kline(kinds[Len(acc) + 1], p, BaseVolume)
       IN KlinesOf(kinds, k.close, Append(acc, k))

\* n kinds: `motif` repeated, then the two kinds of `tail`.
KindsOf(n, motif, tail) ==
  [i \in 1..n |-> IF i > n - 2 THEN tail[i - (n - 2)]
                  ELSE motif[((i - 1) % Len(motif)) + 1]]

Motifs == {<<"F">>, <<"U">>, <<"D">>, <<"W">>, <<"U", "D">>, <<"D", "U">>,
           <<"U", "F">>, <<"D", "F">>, <<"B", "D">>, <<"S", "U">>, <<"W", "U">>,
           <<"W", "D">>, <<"F", "W">>}
Tails == {<<a, b>> : a \in Kinds, b \in Kinds}

\* every price of the klines is positive
Priced(klines) == \A i \in 1..Len(klines) : klines[i].low >= 1

----------------------------------------------------------------------------
(* trendForecaster / aiTradeSelection: setup synthesis *)

TradeModality == {"Scalping", "DayTrading", "Swing", "Position"}

\* getATRMultiplier
getATRMultiplier(modality) ==
  CASE modality = "Scalping" ->
         [sl |-> Num(1), tp1 |-> Num(2), tp2 |-> Num(3), tp3 |-> FourAndHalf]
    [] modality = "DayTrading" ->
         [sl |-> OneAndHalf, tp1 |-> Num(3), tp2 |-> Num(5), tp3 |-> Num(8)]
    [] modality = "Swing" ->
         [sl |-> Num(2), tp1 |-> Num(4), tp2 |-> Num(7), tp3 |-> Num(12)]
    [] modality = "Position" ->
         [sl |-> Num(3), tp1 |-> Num(6), tp2 |-> Num(10), tp3 |-> Num(18)]

\* The direction and the entry with the gap looked at before the break.
DirectionAndEntry_gapFirst(candles) ==
  Const({
    LET d == IF fvg.detected
             THEN [direction |-> IF fvg.direction = "bullish" THEN "LONG" ELSE "SHORT",
                   entryPrice |-> fvg.midpoint]
             ELSE IF bos.detected
             THEN [direction |-> IF bos.direction = "bullish" THEN "LONG" ELSE "SHORT",
                   entryPrice |-> currentPrice]
             ELSE IF ob.detected
             THEN [direction |-> IF ob.direction = "bullish" THEN "LONG" ELSE "SHORT",
                   entryPrice |-> ob.midpoint]
             ELSE [direction |->
                     IF NumGt(currentPrice, SliceLast(candles, 10)[1].close)
                     THEN "LONG" ELSE "SHORT",
                   entryPrice |-> currentPrice]
    IN IF NumGt(NumDiv(NumAbs(NumSub(d.entryPrice, currentPrice)), currentPrice),
                Fl(1, 50))
       THEN [direction |-> d.direction, entryPrice |-> currentPrice]
       ELSE d
    : currentPrice \in {candles[Len(candles)].close},
      bos \in {detectBOS(candles)},
      fvg \in {detectFVG(candles)},
      ob \in {detectOrderBlocks(candles)} })

\* Both synthesizers: the direction and the entry from BOS, FVG, order block
\* or the trend of the last 10 closes, the entry back at the current price
\* when it is more than 2% away.
DirectionAndEntry(candles) ==
  Const({
    LET d == IF bos.detected /\ bos.direction = "bullish"
             THEN [direction |-> "LONG", entryPrice |-> currentPrice]
             ELSE IF bos.detected /\ bos.direction = "bearish"
             THEN [direction |-> "SHORT", entryPrice |-> currentPrice]
             ELSE IF fvg.detected /\ fvg.direction = "bullish"
             THEN [direction |-> "LONG", entryPrice |-> fvg.midpoint]
             ELSE IF fvg.detected /\ fvg.direction = "bearish"
             THEN [direction |-> "SHORT", entryPrice |-> fvg.midpoint]
             ELSE IF ob.detected /\ ob.direction = "bullish"
             THEN [direction |-> "LONG", entryPrice |-> ob.midpoint]
             ELSE IF ob.detected /\ ob.direction = "bearish"
             THEN [direction |-> "SHORT", entryPrice |-> ob.midpoint]
             ELSE [direction |-> IF trend THEN "LONG" ELSE "SHORT",
                   entryPrice |-> currentPrice]
    IN IF NumGt(NumDiv(NumAbs(NumSub(d.entryPrice, currentPrice)), currentPrice),
                Fl(1, 50))
       THEN [direction |-> d.direction, entryPrice |-> currentPrice]
       ELSE d
    : currentPrice \in {candles[Len(candles)].close},
      bos \in {detectBOS(candles)},
      fvg \in {detectFVG(candles)},
      ob \in {detectOrderBlocks(candles)},
      trend \in {LET recentCloses == SliceLast(candles, 10)
                 IN NumGt(recentCloses[Len(recentCloses)].close, recentCloses[1].close)} })

\* entryPrice + x for a LONG, entryPrice - x for a SHORT
Toward(direction, entryPrice, x) ==
  IF direction = "LONG" THEN NumAdd(entryPrice, x) ELSE NumSub(entryPrice, x)
Against(direction, entryPrice, x) ==
  IF direction = "LONG" THEN NumSub(entryPrice, x) ELSE NumAdd(entryPrice, x)

\* buildTradeSetupForSymbol without the `atr === 0` guard.
buildTradeSetupForSymbol_anyATR(fetched, klines, modality) ==
  IF ~fetched THEN Null
  ELSE Const({
  IF Len(candles) < 20 THEN Null
  ELSE Const({
  Const({
    [direction |-> de.direction, entry |-> de.entryPrice,
     tp1 |-> tp1,
     tp2 |-> Toward(de.direction, de.entryPrice, NumMul(atr, atrMultiplier.tp2)),
     tp3 |-> Toward(de.direction, de.entryPrice, NumMul(atr, atrMultiplier.tp3)),
     stopLoss |-> stopLoss, modality |-> modality,
     rrRatio |-> NumDiv(NumAbs(NumSub(tp1, de.entryPrice)),
                        NumAbs(NumSub(de.entryPrice, stopLoss)))]
    : stopLoss \in {Against(de.direction, de.entryPrice, NumMul(atr, atrMultiplier.sl))},
      tp1 \in {Toward(de.direction, de.entryPrice, NumMul(atr, atrMultiplier.tp1))} })
    : atr \in {calculateATR(candles, 14)},
      de \in {DirectionAndEntry(candles)},
      atrMultiplier \in {getATRMultiplier(modality)} })
    : candles \in {parseKlines(klines)} })

\* buildTradeSetupForSymbol (the strict variant).  `fetched` is FALSE when
\* getKlines throws; the catch clause then returns null.
buildTradeSetupForSymbol(fetched, klines, modality) ==
  IF ~fetched THEN Null
  ELSE Const({
  IF Len(candles) < 20 THEN Null
  ELSE Const({
  IF atr = Zero THEN Null
  ELSE Const({
  Const({
  Const({
  Const({
  Const({
    LET override == NumLt(rrRatio, Num(2))
        tp1 == IF override THEN Toward(direction, entryPrice, NumMul(risk, Num(2)))
               ELSE atrTp1
        tp2 == IF override THEN Toward(direction, entryPrice, NumMul(risk, Num(3)))
               ELSE atrTp2
        tp3 == IF override THEN Toward(direction, entryPrice, NumMul(risk, FourAndHalf))
               ELSE atrTp3
    IN [direction |-> direction, entry |-> entryPrice,
        tp1 |-> tp1, tp2 |-> tp2, tp3 |-> tp3, stopLoss |-> stopLoss,
        modality |-> modality,
        rrRatio |-> NumDiv(NumAbs(NumSub(tp1, entryPrice)),
                           NumAbs(NumSub(entryPrice, stopLoss)))]
    : rrRatio \in {IF NumGt(risk, Zero) THEN NumDiv(reward1, risk) ELSE Zero} })
    : risk \in {NumAbs(NumSub(entryPrice, stopLoss))},
      reward1 \in {NumAbs(NumSub(atrTp1, entryPrice))} })
    : stopLoss \in {Against(direction, entryPrice, NumMul(atr, atrMultiplier.sl))},
      atrTp1 \in {Toward(direction, entryPrice, NumMul(atr, atrMultiplier.tp1))},
      atrTp2 \in {Toward(direction, entryPrice, NumMul(atr, atrMultiplier.tp2))},
      atrTp3 \in {Toward(direction, entryPrice, NumMul(atr, atrMultiplier.tp3))} })
    : direction \in {de.direction},
      entryPrice \in {de.entryPrice},
      atrMultiplier \in {getATRMultiplier(modality)} })
    : de \in {DirectionAndEntry(candles)} })
    : atr \in {calculateATR(candles, 14)} })
    : candles \in {parseKlines(klines)} })

\* buildTradeSetupFromSymbol (the rejecting variant), from the klines on.
buildTradeSetupFromKlines(fetched, klines, modality) ==
  IF ~fetched THEN Null
  ELSE Const({
  IF Len(candles) < 20 THEN Null
  ELSE Const({
  IF atr = Zero THEN Null
  ELSE Const({
  Const({
  Const({
  Const({
    IF NumLt(rrRatio, OneAndHalf) THEN Null
    ELSE [direction |-> direction, entry |-> entryPrice,
          tp1 |-> tp1, tp2 |-> tp2, tp3 |-> tp3, stopLoss |-> stopLoss,
          modality |-> modality, rrRatio |-> rrRatio]
    : rrRatio \in {NumDiv(NumAbs(NumSub(tp2, entryPrice)),
                          NumAbs(NumSub(entryPrice, stopLoss)))} })
    : stopLoss \in {Against(direction, entryPrice, slDistance)},
      tp1 \in {Toward(direction, entryPrice, NumMul(slDistance, OneAndHalf))},
      tp2 \in {Toward(direction, entryPrice, NumMul(slDistance, TwoAndHalf))},
      tp3 \in {Toward(direction, entryPrice, NumMul(slDistance, Num(4)))} })
    : direction \in {de.direction},
      entryPrice \in {de.entryPrice},
      slDistance \in {NumMul(atr, OneAndHalf)} })
    : de \in {DirectionAndEntry(candles)} })
    : atr \in {calculateATR(candles, 14)} })
    : candles \in {parseKlines(klines)} })

\* A call of a synthesizer: the klines getKlines returns (or its failure)
\* and the modality.
\* Klines on which the signals disagree: a break above a swing high after a
\* bearish gap, and an order block half a unit below the current price with
\* neither a break nor a gap.
ContestedKinds ==
  { <<"F", "F", "F", "F", "F", "W", "F", "S", "S", "U",
      "W", "U", "W", "U", "W", "U", "W", "U", "W", "U">>,
    <<"F", "F", "F", "F", "F", "F", "F", "F", "F", "F",
      "F", "F", "F", "F", "F", "F", "D", "B", "D", "F">> }

InitSynthesis ==
  /\ HookIdle
  /\ \/ \E n \in 0..MaxCandles, motif \in Motifs, tail \in Tails,
           modality \in TradeModality, fetched \in BOOLEAN :
          LET klines == KlinesOf(KindsOf(n, motif, tail), BasePrice, <<>>)
          IN /\ Priced(klines)
             /\ fetched \/ n = 0
             /\ arg = [fetched |-> fetched, klines |-> klines, modality |-> modality]
     \/ \E kinds \in ContestedKinds, modality \in TradeModality :
          arg = [fetched |-> TRUE, klines |-> KlinesOf(kinds, BasePrice, <<>>),
                 modality |-> modality]
  /\ ret = Null

BuildTradeSetupForSymbol ==
  /\ ret = Null
  /\ ret' = [by |-> "buildTradeSetupForSymbol",
             setup |-> buildTradeSetupForSymbol(arg.fetched, arg.klines, arg.modality)]
  /\ UNCHANGED <<trades, pricesRef, history, regenTimers, genInFlight, pending,
                 nextId, appended, lastOp, arg>>

BuildTradeSetupFromSymbol ==
  /\ ret = Null
  /\ ret' = [by |-> "buildTradeSetupFromSymbol",
             setup |-> buildTradeSetupFromKlines(arg.fetched, arg.klines, arg.modality)]
  /\ UNCHANGED <<trades, pricesRef, history, regenTimers, genInFlight, pending,
                 nextId, appended, lastOp, arg>>

NextSynthesis ==
  \/ BuildTradeSetupForSymbol
  \/ BuildTradeSetupFromSymbol

SpecSynthesis == InitSynthesis /\ [][NextSynthesis]_vars

----------------------------------------------------------------------------
(* Claims about setup synthesis *)

\* |a - b| as an exact rational
Distance(a, b) == [n |-> Abs(a.n * b.d - b.n * a.d), d |-> a.d * b.d]
\* |tp1 - entry| / |entry - stopLoss| >= num / den, the quotient being defined
RewardRiskAtLeast(setup, num, den) ==
  LET reward == Distance(setup.tp1, setup.entry)
      risk == Distance(setup.entry, setup.stopLoss)
  IN /\ risk.n > 0
     /\ reward.n * risk.d * den >= num * risk.n * reward.d

\* C14: every setup a synthesizer returns has |tp1 - entry| / |entry - stopLoss|
\* at least 1.5 (buildTradeSetupFromSymbol) or at least 2 (buildTradeSetupForSymbol).
C14_RewardRiskFloor ==
  (ret # Null /\ ret.setup # Null)
  => IF ret.by = "buildTradeSetupFromSymbol"
     THEN RewardRiskAtLeast(ret.setup, 3, 2)
     ELSE RewardRiskAtLeast(ret.setup, 2, 1)

\* C15: a synthesizer returns null when getKlines fails, when there are fewer
\* than 20 candles and when calculateATR(candles, 14) is 0; calculateATR is 0
\* for fewer than 15 candles.
C15_NullWithoutVolatility ==
  ret # Null
  => LET candles == parseKlines(arg.klines)
     IN /\ (~arg.fetched \/ Len(candles) < 20 \/ calculateATR(candles, 14) = Zero)
           => ret.setup = Null
        /\ Len(candles) < 15 => calculateATR(candles, 14) = Zero

\* The strict synthesizer has returned null for 20 or more candles without
\* any range.
C15_Witness ==
  /\ ret # Null
  /\ ret.by = "buildTradeSetupForSymbol"
  /\ arg.fetched
  /\ Len(arg.klines) >= 20
  /\ calculateATR(parseKlines(arg.klines), 14) = Zero
  /\ ret.setup = Null

----------------------------------------------------------------------------
(* The indicators called on their own *)

\* the periods calculateRSI and calculateATR are called with
Periods == {2, 14}

\* A call of an indicator: the candles and, for calculateRSI and calculateATR,
\* the period.
\* Klines whose lowest swing low lies above their highest swing high: a wick
\* above the second kline, a rally of five, a wick below the tenth kline, and
\* a last kline that closes between the two wicks.
SwingsApartKinds ==
  <<"U", "W", "F", "U", "U", "U", "U", "U", "D", "W", "F", "S">>

InitIndicators ==
  /\ HookIdle
  /\ \E period \in Periods :
       \/ \E n \in 0..MaxCandles, motif \in Motifs, tail \in Tails :
            LET klines == KlinesOf(KindsOf(n, motif, tail), BasePrice, <<>>)
            IN /\ Priced(klines)
               /\ arg = [candles |-> parseKlines(klines), period |-> period]
       \/ arg = [candles |-> parseKlines(KlinesOf(SwingsApartKinds, BasePrice, <<>>)),
                 period |-> period]
  /\ ret = Null

DetectBOS ==
  /\ ret = Null
  /\ ret' = [by |-> "detectBOS", value |-> detectBOS(arg.candles)]
  /\ UNCHANGED <<trades, pricesRef, history, regenTimers, genInFlight, pending,
                 nextId, appended, lastOp, arg>>

DetectFVG ==
  /\ ret = Null
  /\ ret' = [by |-> "detectFVG", value |-> detectFVG(arg.candles)]
  /\ UNCHANGED <<trades, pricesRef, history, regenTimers, genInFlight, pending,
                 nextId, appended, lastOp, arg>>

DetectOrderBlocks ==
  /\ ret = Null
  /\ ret' = [by |-> "detectOrderBlocks", value |-> detectOrderBlocks(arg.candles)]
  /\ UNCHANGED <<trades, pricesRef, history, regenTimers, genInFlight, pending,
                 nextId, appended, lastOp, arg>>

DetectCHOCH ==
  /\ ret = Null
  /\ ret' = [by |-> "detectCHOCH", value |-> detectCHOCH(arg.candles)]
  /\ UNCHANGED <<trades, pricesRef, history, regenTimers, genInFlight, pending,
                 nextId, appended, lastOp, arg>>

CalculateRSI ==
  /\ ret = Null
  /\ ret' = [by |-> "calculateRSI", value |-> calculateRSI(arg.candles, arg.period)]
  /\ UNCHANGED <<trades, pricesRef, history, regenTimers, genInFlight, pending,
                 nextId, appended, lastOp, arg>>

CalculateATR ==
  /\ ret = Null
  /\ ret' = [by |-> "calculateATR", value |-> calculateATR(arg.candles, arg.period)]
  /\ UNCHANGED <<trades, pricesRef, history, regenTimers, genInFlight, pending,
                 nextId, appended, lastOp, arg>>

NextIndicators ==
  \/ DetectBOS
  \/ DetectFVG
  \/ DetectOrderBlocks
  \/ DetectCHOCH
  \/ CalculateRSI
  \/ CalculateATR

SpecIndicators == InitIndicators /\ [][NextIndicators]_vars

\* C18: below its minimum window an indicator returns its neutral value:
\* calculateRSI 50 and calculateATR 0 below period + 1 candles, detectBOS
\* (below 10), detectFVG (below 3), detectOrderBlocks (below 5) and detectCHOCH
\* (below 15) detected = false with direction null.
C18_NeutralBelowWindow ==
  ret # Null
  => LET n == Len(arg.candles)
     IN /\ (ret.by = "calculateRSI" /\ n < arg.period + 1) => ret.value = Num(50)
        /\ (ret.by = "calculateATR" /\ n < arg.period + 1) => ret.value = Zero
        /\ (\/ ret.by = "detectBOS" /\ n < 10
            \/ ret.by = "detectFVG" /\ n < 3
            \/ ret.by = "detectOrderBlocks" /\ n < 5
            \/ ret.by = "detectCHOCH" /\ n < 15)
           => (~ret.value.detected /\ ret.value.direction = "null")

\* calculateATR has returned 0 for exactly `period` candles that have a range.
C18_Witness ==
  /\ ret # Null
  /\ ret.by = "calculateATR"
  /\ Len(arg.candles) = arg.period
  /\ \E i \in 1..Len(arg.candles) : arg.candles[i].high # arg.candles[i].low
  /\ ret.value = Zero

----------------------------------------------------------------------------
(* pairScoringEngine (batches of 8): the pattern modules and scoreSymbol.  *)
(* A factor string is <<text, parameter>>: the text with its interpolated  *)
(* direction, pattern name or modality; interpolated figures (toFixed) are *)
(* left out, a text carrying one being pushed at most once per call.       *)
(* Sub-scores are small integers, which a Number holds exactly.            *)

\* 'bullish' / 'bearish' of a pattern
Signal(bullish) == IF bullish THEN "bullish" ELSE "bearish"
\* <<x>> when cond holds, else <<>>: a conditional results.push(x)
When(cond, x) == IF cond THEN <<x>> ELSE <<>>
\* reduce((s, c) => s + c.volume, 0)
RECURSIVE SumVolume(_, _, _)
SumVolume(seq, i, acc) ==
  IF i > Len(seq) THEN acc ELSE SumVolume(seq, i + 1, NumAdd(acc, seq[i].volume))
\* array.slice(0, k)
SliceFirst(seq, k) == SubSeq(seq, 1, IF k < Len(seq) THEN k ELSE Len(seq))
\* the score Math.min(hi, Math.max(0, score))
Clamp(score, hi) == IF score < 0 THEN 0 ELSE IF score > hi THEN hi ELSE score

\* detectCandlePatterns
detectCandlePatterns(candles) ==
  IF Len(candles) < 3 THEN <<>>
  ELSE
    LET c == candles[Len(candles)]
        c1 == candles[Len(candles) - 1]
        c2 == candles[Len(candles) - 2]
        body == NumAbs(NumSub(c.close, c.open))
        range == NumSub(c.high, c.low)
        upperWick == NumSub(c.high, NumMax(c.open, c.close))
        lowerWick == NumSub(NumMin(c.open, c.close), c.low)
        isBullish == NumGt(c.close, c.open)
        tiny == Fl(1, 10000)
        prevBody == NumAbs(NumSub(c1.close, c1.open))
        c1Body == prevBody
        c1Range == NumSub(c1.high, c1.low)
        c2Body == NumAbs(NumSub(c2.close, c2.open))
        c2Mid == NumDiv(NumAdd(c2.open, c2.close), Num(2))
        engulfs == NumGt(body, NumMul(prevBody, Fl(11, 10)))
        star == /\ NumGt(c2Body, NumMul(NumSub(c2.high, c2.low), Fl(1, 2)))
                /\ NumLt(NumAbs(NumSub(c1.close, c1.open)),
                         NumMul(NumSub(c1.high, c1.low), Fl(3, 10)))
                /\ NumGt(body, NumMul(NumSub(c.high, c.low), Fl(1, 2)))
    IN When(/\ NumGt(lowerWick, NumMul(body, Num(2)))
            /\ NumLt(upperWick, NumMul(body, Fl(1, 2)))
            /\ NumGt(range, Zero),
            [name |-> "Hammer", bullish |-> TRUE,
             strength |-> NumMin(Num(1), NumDiv(lowerWick, range))])
       \o When(/\ NumGt(upperWick, NumMul(body, Num(2)))
               /\ NumLt(lowerWick, NumMul(body, Fl(1, 2)))
               /\ NumGt(range, Zero),
               [name |-> "Inverted Hammer", bullish |-> TRUE,
                strength |-> NumMin(Num(1), NumDiv(upperWick, range))])
       \o When(/\ engulfs /\ isBullish /\ NumLt(c1.close, c1.open)
               /\ NumLe(c.open, c1.close) /\ NumGe(c.close, c1.open),
               [name |-> "Bullish Engulfing", bullish |-> TRUE,
                strength |-> NumMin(Num(1), NumDiv(body, NumAdd(prevBody, tiny)))])
       \o When(/\ engulfs /\ ~isBullish /\ NumGt(c1.close, c1.open)
               /\ NumGe(c.open, c1.close) /\ NumLe(c.close, c1.open),
               [name |-> "Bearish Engulfing", bullish |-> FALSE,
                strength |-> NumMin(Num(1), NumDiv(body, NumAdd(prevBody, tiny)))])
       \o When(NumLt(c.high, c1.high) /\ NumGt(c.low, c1.low),
               [name |-> "Inside Bar", bullish |-> isBullish, strength |-> Fl(3, 5)])
       \o When(NumGt(NumDiv(lowerWick, NumAdd(range, tiny)), Fl(3, 5)),
               [name |-> "Long Wick Rejection (Bullish)", bullish |-> TRUE,
                strength |-> NumDiv(lowerWick, range)])
       \o When(NumGt(NumDiv(upperWick, NumAdd(range, tiny)), Fl(3, 5)),
               [name |-> "Long Wick Rejection (Bearish)", bullish |-> FALSE,
                strength |-> NumDiv(upperWick, range)])
       \o When(/\ NumGt(c1Body, NumMul(c1Range, Fl(3, 5)))
               /\ NumGt(body, NumMul(range, Fl(3, 5)))
               /\ isBullish # NumGt(c1.close, c1.open)
               /\ NumLt(NumDiv(NumAbs(NumSub(body, c1Body)), NumAdd(c1Body, tiny)),
                        Fl(3, 10)),
               [name |-> "Railroad Tracks", bullish |-> isBullish,
                strength |-> Fl(17, 20)])
       \o When(NumLt(body, NumMul(range, Fl(1, 10))) /\ NumGt(range, Zero),
               [name |-> "Doji", bullish |-> isBullish, strength |-> Fl(1, 2)])
       \o When(/\ NumLt(c2.close, c2.open) /\ star
               /\ NumGt(c.close, c.open) /\ NumGt(c.close, c2Mid),
               [name |-> "Morning Star", bullish |-> TRUE, strength |-> Fl(9, 10)])
       \o When(/\ NumGt(c2.close, c2.open) /\ star
               /\ NumLt(c.close, c.open) /\ NumLt(c.close, c2Mid),
               [name |-> "Evening Star", bullish |-> FALSE, strength |-> Fl(9, 10)])

\* detectChartPatterns, the loop over i = 2 .. recent.length - 3: the swing
\* highs and lows (index and price) in the order met
RECURSIVE ChartSwings(_, _, _)
ChartSwings(recent, i, acc) ==
  IF i >= Len(recent) - 2 THEN acc
  ELSE LET h == recent[i + 1].high
           l == recent[i + 1].low
           a1 == IF /\ NumGt(h, recent[i].high) /\ NumGt(h, recent[i - 1].high)
                    /\ NumGt(h, recent[i + 2].high) /\ NumGt(h, recent[i + 3].high)
                 THEN [acc EXCEPT !.swingHighs = Append(@, [idx |-> i, price |-> h])]
                 ELSE acc
           a2 == IF /\ NumLt(l, recent[i].low) /\ NumLt(l, recent[i - 1].low)
                    /\ NumLt(l, recent[i + 2].low) /\ NumLt(l, recent[i + 3].low)
                 THEN [a1 EXCEPT !.swingLows = Append(@, [idx |-> i, price |-> l])]
                 ELSE a1
       IN ChartSwings(recent, i + 1, a2)

\* Math.max(...prices) / Math.min(...prices) of the closes of a non-empty list
RECURSIVE MaxClose(_, _)
MaxClose(seq, i) ==
  IF i = Len(seq) THEN seq[i].close ELSE NumMax(seq[i].close, MaxClose(seq, i + 1))
RECURSIVE MinClose(_, _)
MinClose(seq, i) ==
  IF i = Len(seq) THEN seq[i].close ELSE NumMin(seq[i].close, MinClose(seq, i + 1))

\* |a - b| / a
RelDiff(a, b) == NumDiv(NumAbs(NumSub(a, b)), a)

\* detectChartPatterns
detectChartPatterns(candles) ==
  IF Len(candles) < 20 THEN <<>>
  ELSE
  Const({
  Const({
  Const({
    LET hs == sw.swingHighs
        ls == sw.swingLows
        nh == Len(hs)
        nl == Len(ls)
        lastClose == rangeCandles[Len(rangeCandles)].close
        mid == NumDiv(NumAdd(maxP, minP), Num(2))
    IN When(/\ nh >= 2
            /\ NumLt(RelDiff(hs[nh - 1].price, hs[nh].price), Fl(1, 50))
            /\ hs[nh].idx > hs[nh - 1].idx + 3,
            [name |-> "Double Top", bullish |-> FALSE, strength |-> Fl(4, 5)])
       \o When(/\ nl >= 2
               /\ NumLt(RelDiff(ls[nl - 1].price, ls[nl].price), Fl(1, 50))
               /\ ls[nl].idx > ls[nl - 1].idx + 3,
               [name |-> "Double Bottom", bullish |-> TRUE, strength |-> Fl(4, 5)])
       \o When(/\ nh >= 3
               /\ NumGt(hs[nh - 1].price, hs[nh - 2].price)
               /\ NumGt(hs[nh - 1].price, hs[nh].price)
               /\ NumLt(RelDiff(hs[nh - 2].price, hs[nh].price), Fl(3, 100)),
               [name |-> "Head & Shoulders", bullish |-> FALSE,
                strength |-> Fl(17, 20)])
       \o When(/\ nl >= 3
               /\ NumLt(ls[nl - 1].price, ls[nl - 2].price)
               /\ NumLt(ls[nl - 1].price, ls[nl].price)
               /\ NumLt(RelDiff(ls[nl - 2].price, ls[nl].price), Fl(3, 100)),
               [name |-> "Inverse Head & Shoulders", bullish |-> TRUE,
                strength |-> Fl(17, 20)])
       \o When(/\ nh >= 2 /\ nl >= 2
               /\ NumLt(RelDiff(hs[nh - 1].price, hs[nh].price), Fl(3, 200))
               /\ NumGt(ls[nl].price, ls[nl - 1].price),
               [name |-> "Ascending Triangle", bullish |-> TRUE,
                strength |-> Fl(3, 4)])
       \o When(/\ nh >= 2 /\ nl >= 2
               /\ NumLt(RelDiff(ls[nl - 1].price, ls[nl].price), Fl(3, 200))
               /\ NumLt(hs[nh].price, hs[nh - 1].price),
               [name |-> "Descending Triangle", bullish |-> FALSE,
                strength |-> Fl(3, 4)])
       \o When(quiet /\ NumGt(lastClose, mid),
               [name |-> "Wyckoff Accumulation", bullish |-> TRUE,
                strength |-> Fl(7, 10)])
       \o When(quiet /\ NumLt(lastClose, mid),
               [name |-> "Wyckoff Distribution", bullish |-> FALSE,
                strength |-> Fl(7, 10)])
    : quiet \in {/\ NumLt(NumDiv(NumSub(maxP, minP), minP), Fl(1, 20))
                 /\ NumLt(NumDiv(SumVolume(SliceLast(rangeCandles, 7), 1, Zero), Num(7)),
                          NumMul(NumDiv(SumVolume(SliceFirst(rangeCandles, 7), 1, Zero),
                                        Num(7)),
                                 Fl(4, 5)))} })
    : sw \in {ChartSwings(recent, 2, [swingHighs |-> <<>>, swingLows |-> <<>>])},
      rangeCandles \in {SliceLast(recent, 15)},
      maxP \in {MaxClose(SliceLast(recent, 15), 1)},
      minP \in {MinClose(SliceLast(recent, 15), 1)} })
    : recent \in {SliceLast(candles, 30)} })

\* analyzeVolume (called with 20 candles or more): score and factors
analyzeVolume(candles) ==
  IF Len(candles) < 20 THEN [score |-> 10, factors |-> <<>>]
  ELSE
    LET recent == SliceLast(candles, 20)
        avgVol == NumDiv(SumVolume(recent, 1, Zero), Num(Len(recent)))
        lastCandle == recent[Len(recent)]
        prevCandle == recent[Len(recent) - 1]
        lastVol == lastCandle.volume
        prevVol == prevCandle.volume
        firstHalfAvg == NumDiv(SumVolume(SliceFirst(recent, 10), 1, Zero), Num(10))
        secondHalfAvg == NumDiv(SumVolume(SubSeq(recent, 11, Len(recent)), 1, Zero),
                                Num(10))
        increasing == NumGt(secondHalfAvg, NumMul(firstHalfAvg, Fl(11, 10)))
        priceMove == NumDiv(NumAbs(NumSub(lastCandle.close, lastCandle.open)),
                            lastCandle.open)
        hasBreakoutVolume == /\ NumGt(lastVol, NumMul(avgVol, OneAndHalf))
                             /\ NumGt(priceMove, Fl(1, 200))
        hasVolumeFakeout == /\ NumGt(priceMove, Fl(1, 100))
                            /\ NumLt(lastVol, NumMul(avgVol, Fl(4, 5)))
        hasDivergence == /\ NumGt(lastCandle.close, prevCandle.close)
                         /\ NumLt(lastVol, NumMul(prevVol, Fl(4, 5)))
        hasCapitulation ==
          /\ NumGt(lastVol, NumMul(avgVol, Num(3)))
          /\ NumLt(lastCandle.close, lastCandle.open)
          /\ NumGt(NumAbs(NumSub(lastCandle.close, lastCandle.open)),
                   NumMul(NumSub(lastCandle.high, lastCandle.low), Fl(3, 5)))
        score == 10 + (IF increasing THEN 5 ELSE 0)
                    + (IF hasBreakoutVolume THEN 8 ELSE 0)
                    - (IF hasVolumeFakeout THEN 8 ELSE 0)
                    - (IF hasDivergence THEN 4 ELSE 0)
                    + (IF hasCapitulation THEN 6 ELSE 0)
    IN [score |-> Clamp(score, 25),
        factors |->
          When(increasing, <<"Volume trend increasing", "">>)
          \o When(hasBreakoutVolume, <<"Volume spike confirms breakout", "">>)
          \o When(hasVolumeFakeout, <<"Low-volume breakout detected", "">>)
          \o When(hasDivergence, <<"Price/volume divergence", "">>)
          \o When(hasCapitulation, <<"Volume capitulation detected", "">>)]

\* analyzePsychology, the loop over i = 0 .. recent.length - 3: the highest
\* high / the lowest low of all candles but the last two
RECURSIVE HighestHigh(_, _)
HighestHigh(recent, i) ==
  IF i = Len(recent) - 2 THEN recent[i].high
  ELSE NumMax(recent[i].high, HighestHigh(recent, i + 1))
RECURSIVE LowestLow(_, _)
LowestLow(recent, i) ==
  IF i = Len(recent) - 2 THEN recent[i].low
  ELSE NumMin(recent[i].low, LowestLow(recent, i + 1))

\* the candles of seq that closed above their open
Bullish(seq) == SelectSeq(seq, LAMBDA c : NumGt(c.close, c.open))

\* analyzePsychology (called with 20 candles or more)
analyzePsychology(candles) ==
  IF Len(candles) < 10 THEN [score |-> 8, factors |-> <<>>]
  ELSE
    LET recent == SliceLast(candles, 15)
        last == recent[Len(recent)]
        prev == recent[Len(recent) - 1]
        swingHigh == HighestHigh(recent, 1)
        swingLow == LowestLow(recent, 1)
        reversal == NumGt(NumAbs(NumSub(last.close, last.open)),
                          NumMul(NumSub(last.high, last.low), Fl(2, 5)))
        hasBullTrap == /\ NumGt(prev.high, swingHigh) /\ NumLt(last.close, swingHigh)
                       /\ NumLt(last.close, last.open) /\ reversal
        hasBearTrap == /\ NumLt(prev.low, swingLow) /\ NumGt(last.close, swingLow)
                       /\ NumGt(last.close, last.open) /\ reversal
        upperWick == NumSub(last.high, NumMax(last.open, last.close))
        lowerWick == NumSub(NumMin(last.open, last.close), last.low)
        range == NumSub(last.high, last.low)
        hasStopHunt ==
          \/ NumGt(lowerWick, NumMul(range, Fl(1, 2))) /\ NumGt(last.close, last.open)
          \/ NumGt(upperWick, NumMul(range, Fl(1, 2))) /\ NumLt(last.close, last.open)
        bullishCount == Len(Bullish(SliceLast(recent, 5)))
        score == 8 - (IF hasBullTrap THEN 5 ELSE 0)
                   + (IF hasBearTrap THEN 5 ELSE 0)
                   + (IF hasStopHunt THEN 4 ELSE 0)
                   + (IF bullishCount >= 4 \/ bullishCount <= 1 THEN 3 ELSE 0)
    IN [score |-> Clamp(score, 15),
        factors |->
          When(hasBullTrap, <<"Bull trap detected", "">>)
          \o When(hasBearTrap, <<"Bear trap reversal", "">>)
          \o When(hasStopHunt, <<"Stop hunt pattern", "">>)
          \o When(bullishCount >= 4, <<"Strong bullish momentum", "">>)
          \o When(bullishCount < 4 /\ bullishCount <= 1,
                  <<"Strong bearish momentum", "">>)]

\* analyzeStrategyAlignment
analyzeStrategyAlignment(modality, bos, fvg, ob, choch, rsi) ==
  LET hits ==
        CASE modality = "Scalping" ->
               When(fvg.detected, [s |-> 8, f |-> <<"FVG entry zone identified", fvg.direction>>])
               \o When(bos.detected, [s |-> 5, f |-> <<"BOS momentum confirmed", bos.direction>>])
               \o When(NumLt(rsi, Num(35)) \/ NumGt(rsi, Num(65)),
                       [s |-> 4, f |-> <<"RSI momentum extreme", "">>])
          [] modality = "DayTrading" ->
               When(bos.detected, [s |-> 8, f |-> <<"BOS confirmed on interval", bos.direction>>])
               \o When(ob.detected, [s |-> 5, f |-> <<"Order Block institutional zone", ob.direction>>])
               \o When(NumGt(rsi, Num(40)) /\ NumLt(rsi, Num(60)),
                       [s |-> 4, f |-> <<"RSI neutral", "">>])
          [] modality = "Swing" ->
               When(fvg.detected, [s |-> 6, f |-> <<"FVG imbalance zone for swing entry", fvg.direction>>])
               \o When(ob.detected, [s |-> 6, f |-> <<"Order Block swing demand/supply zone", ob.direction>>])
               \o When(choch.detected, [s |-> 5, f |-> <<"CHoCH character change for swing", choch.direction>>])
          [] modality = "Position" ->
               When(bos.detected, [s |-> 7, f |-> <<"BOS on daily", bos.direction>>])
               \o When(choch.detected, [s |-> 6, f |-> <<"CHoCH long-term structure change", choch.direction>>])
               \o When(NumLt(rsi, Num(40)) \/ NumGt(rsi, Num(60)),
                       [s |-> 4, f |-> <<"RSI position entry zone", "">>])
      score == 5 + (IF Len(hits) >= 1 THEN hits[1].s ELSE 0)
                 + (IF Len(hits) >= 2 THEN hits[2].s ELSE 0)
                 + (IF Len(hits) >= 3 THEN hits[3].s ELSE 0)
  IN [score |-> Clamp(score, 20),
      factors |-> [i \in 1..Len(hits) |-> hits[i].f]]

\* minAtrPercent / maxAtrPercent of validateRisk
minAtrPercent(modality) ==
  CASE modality = "Scalping" -> Fl(1, 10)
    [] modality = "DayTrading" -> Fl(3, 10)
    [] modality = "Swing" -> Fl(4, 5)
    [] modality = "Position" -> OneAndHalf
maxAtrPercent(modality) ==
  CASE modality = "Scalping" -> Num(1)
    [] modality = "DayTrading" -> Num(3)
    [] modality = "Swing" -> Num(8)
    [] modality = "Position" -> Num(20)

\* validateRisk
validateRisk(candles, modality) ==
  Const({
    IF atr = Zero
    THEN [score |-> 0, factors |-> << <<"Insufficient data for ATR calculation", "">> >>]
    ELSE Const({
      LET tooLow == NumLt(atrPercent, minAtrPercent(modality))
          isVolatilityOk == /\ NumGe(atrPercent, minAtrPercent(modality))
                            /\ NumLe(atrPercent, maxAtrPercent(modality))
          rrAchievable == NumGe(atrPercent, minAtrPercent(modality))
          score == 5 + (IF isVolatilityOk THEN 5 ELSE IF tooLow THEN -3 ELSE -2)
                     + (IF rrAchievable THEN 5 ELSE 0)
      IN [score |-> Clamp(score, 15),
          factors |->
            << IF isVolatilityOk THEN <<"ATR optimal volatility", modality>>
               ELSE IF tooLow THEN <<"ATR too low", "">>
               ELSE <<"ATR high", "">> >>
            \o When(rrAchievable, <<"1:2 R:R achievable", "">>)]
      : atrPercent \in {NumMul(NumDiv(atr, currentPrice), Num(100))} })
    : atr \in {calculateATR(candles, 14)},
      currentPrice \in {candles[Len(candles)].close} })

\* Array.from(new Set(allFactors)): the first occurrences, in order
RECURSIVE Unique(_, _)
Unique(seq, acc) ==
  IF seq = <<>> THEN acc
  ELSE Unique(Tail(seq),
              IF \E i \in 1..Len(acc) : acc[i] = Head(seq) THEN acc
              ELSE Append(acc, Head(seq)))

\* scoreSymbol, module 2: the SMC score and factors
smcModule(bos, fvg, ob, choch) ==
  LET smcScore == 5 + (IF bos.detected THEN 10 ELSE 0) + (IF fvg.detected THEN 8 ELSE 0)
                    + (IF ob.detected THEN 7 ELSE 0) + (IF choch.detected THEN 5 ELSE 0)
  IN [score |-> IF smcScore > 25 THEN 25 ELSE smcScore,
      factors |-> When(bos.detected, <<"BOS detected on interval", bos.direction>>)
                  \o When(fvg.detected, <<"FVG imbalance zone on interval", fvg.direction>>)
                  \o When(ob.detected, <<"Order Block institutional zone on interval", ob.direction>>)
                  \o When(choch.detected, <<"CHoCH character change signal", choch.direction>>)]

\* scoreSymbol, modules 3 and 4: the score and factors of the first two
\* patterns; kind is "pattern" / "signal" or "formation"
patternModule(patterns, kind) ==
  LET first2 == SliceFirst(patterns, 2)
      sum == (IF Len(first2) >= 1 THEN NumRound(NumMul(first2[1].strength, Num(5))) ELSE 0)
             + (IF Len(first2) >= 2 THEN NumRound(NumMul(first2[2].strength, Num(5))) ELSE 0)
  IN [score |-> IF sum > 10 THEN 10 ELSE sum,
      factors |-> [i \in 1..Len(first2) |->
                     <<first2[i].name, kind, Signal(first2[i].bullish)>>]]

\* The seven modules of scoreSymbol in the order their factors are collected.
Modules(candles, modality) ==
  Const({
    << smcModule(bos, fvg, ob, choch),
       patternModule(candlePatterns, "signal"),
       patternModule(chartPatterns, "formation"),
       analyzeVolume(candles),
       analyzePsychology(candles),
       analyzeStrategyAlignment(modality, bos, fvg, ob, choch, rsi),
       validateRisk(candles, modality) >>
    : bos \in {detectBOS(candles)},
      fvg \in {detectFVG(candles)},
      ob \in {detectOrderBlocks(candles)},
      choch \in {detectCHOCH(candles)},
      rsi \in {calculateRSI(candles, 14)},
      candlePatterns \in {detectCandlePatterns(candles)},
      chartPatterns \in {detectChartPatterns(candles)} })

\* Math.min(100, Math.round((rawScore / 120) * 100)).  In double precision
\* (rawScore / 120) * 100 rounds as the exact quotient does for every
\* rawScore in 0 .. 120 but 69, where it is 57.49999999999999.
normalizedScore(rawScore) ==
  LET rounded == IF rawScore = 69 THEN 57 ELSE MathRound(rawScore * 100, 120)
  IN IF rounded > 100 THEN 100 ELSE rounded

\* Array.from(new Set(allFactors)).slice(0, 3)
TopFactors(allFactors) == SliceFirst(Unique(allFactors, <<>>), 3)

\* the scores the modules return, their sum, and the factors they push, in
\* the order of the calls
RECURSIVE ScoresOf(_)
ScoresOf(ms) == IF ms = <<>> THEN <<>> ELSE <<Head(ms).score>> \o ScoresOf(Tail(ms))
RECURSIVE SumModules(_, _)
SumModules(ms, i) == IF i > Len(ms) THEN 0 ELSE ms[i].score + SumModules(ms, i + 1)
RECURSIVE AllFactors(_, _)
AllFactors(ms, i) == IF i > Len(ms) THEN <<>> ELSE ms[i].factors \o AllFactors(ms, i + 1)
\* allFactors.map(f => f.label)
RECURSIVE Labels(_)
Labels(fs) == IF fs = <<>> THEN <<>> ELSE <<Head(fs).label>> \o Labels(Tail(fs))

\* a call that returned null before it scored anything
NothingScored(by) == [by |-> by, value |-> Null, subScores |-> <<>>, collected |-> <<>>]

\* A call of scoreSymbol: the value it returns, with the sub-scores it adds
\* up and the factors it collects on the way.  `fetched` is FALSE when
\* getKlines throws; the catch clause then returns null.
ScoreSymbolCall(fetched, klines, modality) ==
  IF ~fetched THEN NothingScored("scoreSymbol")
  ELSE Const({
  IF Len(candles) < 20 THEN NothingScored("scoreSymbol")
  ELSE Const({
  Const({
  Const({
    [by |-> "scoreSymbol",
     value |-> [score |-> normalizedScore(rawScore),
                scoringFactors |-> IF Len(uniqueFactors) > 0 THEN uniqueFactors
                                   ELSE << <<"analysis complete", modality>> >>],
     subScores |-> ScoresOf(ms),
     collected |-> allFactors]
    : uniqueFactors \in {TopFactors(allFactors)} })
    : rawScore \in {ms[1].score + ms[2].score + ms[3].score + ms[4].score
                    + ms[5].score + ms[6].score + ms[7].score},
      allFactors \in {AllFactors(ms, 1)} })
    : ms \in {Modules(candles, modality)} })
    : candles \in {parseKlines(klines)} })

\* scoreSymbol: what the call returns
scoreSymbol(fetched, klines, modality) == ScoreSymbolCall(fetched, klines, modality).value

----------------------------------------------------------------------------
(* pairScoringEngine (batches of 5): the modules and scoreSymbol of the    *)
(* engine aiTradeSelection imports.  Definitions whose name the other      *)
(* engine also uses end in 2.                                              *)

\* Math.max(...seq.map(c => c[f])) / Math.min(...) of a non-empty list
RECURSIVE MaxOver(_, _, _)
MaxOver(seq, f, i) ==
  IF i = Len(seq) THEN seq[i][f] ELSE NumMax(seq[i][f], MaxOver(seq, f, i + 1))
RECURSIVE MinOver(_, _, _)
MinOver(seq, f, i) ==
  IF i = Len(seq) THEN seq[i][f] ELSE NumMin(seq[i][f], MinOver(seq, f, i + 1))

\* detectCandlestickPatterns
detectCandlestickPatterns(candles) ==
  IF Len(candles) < 3 THEN <<>>
  ELSE
    LET c == candles[Len(candles)]
        prev == candles[Len(candles) - 1]
        prev2 == candles[Len(candles) - 2]
        body == NumAbs(NumSub(c.close, c.open))
        range == NumSub(c.high, c.low)
        upperWick == NumSub(c.high, NumMax(c.open, c.close))
        lowerWick == NumSub(NumMin(c.open, c.close), c.low)
        isBullish == NumGt(c.close, c.open)
        isBearish == NumLt(c.close, c.open)
        prevBody == NumAbs(NumSub(prev.close, prev.open))
        similar == /\ NumGt(prevBody, Zero) /\ NumGt(body, Zero)
                   /\ NumLt(NumDiv(NumAbs(NumSub(body, prevBody)), NumMax(body, prevBody)),
                            Fl(1, 5))
        p2Body == NumAbs(NumSub(prev2.close, prev2.open))
        p2Mid == NumDiv(NumAdd(prev2.open, prev2.close), Num(2))
        star == /\ NumGt(p2Body, Zero)
                /\ NumLt(NumAbs(NumSub(prev.close, prev.open)), NumMul(p2Body, Fl(3, 10)))
    IN When(/\ NumGt(lowerWick, NumMul(body, Num(2)))
            /\ NumLt(upperWick, NumMul(body, Fl(1, 2)))
            /\ NumGt(range, Zero),
            [name |-> "Hammer (bullish reversal)", score |-> 12])
       \o When(/\ NumGt(upperWick, NumMul(body, Num(2)))
               /\ NumLt(lowerWick, NumMul(body, Fl(1, 2)))
               /\ NumGt(range, Zero),
               [name |-> "Inverted Hammer (bullish signal)", score |-> 10])
       \o When(/\ NumLt(prev.close, prev.open) /\ isBullish
               /\ NumLt(c.open, prev.close) /\ NumGt(c.close, prev.open),
               [name |-> "Bullish Engulfing pattern", score |-> 15])
       \o When(/\ NumGt(prev.close, prev.open) /\ isBearish
               /\ NumGt(c.open, prev.close) /\ NumLt(c.close, prev.open),
               [name |-> "Bearish Engulfing pattern", score |-> 15])
       \o When(NumLt(c.high, prev.high) /\ NumGt(c.low, prev.low),
               [name |-> "Inside Bar (consolidation)", score |-> 8])
       \o When(NumGt(c.high, prev.high) /\ NumLt(c.low, prev.low),
               [name |-> "Outside Bar (volatility expansion)", score |-> 10])
       \o When(NumGt(lowerWick, NumMul(body, TwoAndHalf)) /\ isBullish,
               [name |-> "Long wick rejection (bullish)", score |-> 12])
       \o When(NumGt(upperWick, NumMul(body, TwoAndHalf)) /\ isBearish,
               [name |-> "Long wick rejection (bearish)", score |-> 12])
       \o When(similar /\ NumLt(prev.close, prev.open) /\ isBullish,
               [name |-> "Railroad Tracks (bullish reversal)", score |-> 14])
       \o When(similar /\ NumGt(prev.close, prev.open) /\ isBearish,
               [name |-> "Railroad Tracks (bearish reversal)", score |-> 14])
       \o When(/\ NumLt(prev2.close, prev2.open) /\ star /\ isBullish
               /\ NumGt(c.close, p2Mid),
               [name |-> "Morning Star (strong bullish reversal)", score |-> 18])
       \o When(/\ NumGt(prev2.close, prev2.open) /\ star /\ isBearish
               /\ NumLt(c.close, p2Mid),
               [name |-> "Evening Star (strong bearish reversal)", score |-> 18])

\* (a - b) / b
RelGain(a, b) == NumDiv(NumSub(a, b), b)

\* detectChartPatterns of this engine (swings over all the candles)
detectChartPatterns2(candles) ==
  IF Len(candles) < 20 THEN <<>>
  ELSE
    LET n == Len(candles)
        sw == ChartSwings(candles, 2, [swingHighs |-> <<>>, swingLows |-> <<>>])
        hs == sw.swingHighs
        ls == sw.swingLows
        nh == Len(hs)
        nl == Len(ls)
        lastClose == candles[n].close
        consolidation == SubSeq(candles, n - 4, n)
        consRange == RelGain(MaxOver(consolidation, "close", 1),
                             MinOver(consolidation, "close", 1))
        trendFirst == candles[n - 14].close
        trendLast == candles[n - 5].close
        baseCandles == SubSeq(candles, n - 29, n - 5)
        baseRange == RelGain(MaxOver(baseCandles, "high", 1),
                             MinOver(baseCandles, "low", 1))
        avgVol == NumDiv(SumVolume(baseCandles, 1, Zero), Num(Len(baseCandles)))
        recentVol == NumDiv(SumVolume(SubSeq(candles, n - 4, n), 1, Zero), Num(5))
        breakout == /\ n >= 30 /\ NumLt(baseRange, Fl(2, 25))
                    /\ NumGt(recentVol, NumMul(avgVol, OneAndHalf))
    IN When(/\ nh >= 2
            /\ NumLt(RelDiff(hs[nh - 1].price, hs[nh].price), Fl(1, 50))
            /\ hs[nh].idx > hs[nh - 1].idx + 3
            /\ NumLt(lastClose,
                     MinOver(SubSeq(candles, hs[nh - 1].idx + 1, hs[nh].idx + 1), "low", 1)),
            [name |-> "Double Top (bearish reversal)", score |-> 20])
       \o When(/\ nl >= 2
               /\ NumLt(RelDiff(ls[nl - 1].price, ls[nl].price), Fl(1, 50))
               /\ ls[nl].idx > ls[nl - 1].idx + 3
               /\ NumGt(lastClose,
                        MaxOver(SubSeq(candles, ls[nl - 1].idx + 1, ls[nl].idx + 1), "high", 1)),
               [name |-> "Double Bottom (bullish reversal)", score |-> 20])
       \o When(/\ nh >= 3
               /\ NumGt(hs[nh - 1].price, hs[nh - 2].price)
               /\ NumGt(hs[nh - 1].price, hs[nh].price)
               /\ NumLt(RelDiff(hs[nh - 2].price, hs[nh].price), Fl(3, 100)),
               [name |-> "Head & Shoulders (bearish)", score |-> 22])
       \o When(/\ nl >= 3
               /\ NumLt(ls[nl - 1].price, ls[nl - 2].price)
               /\ NumLt(ls[nl - 1].price, ls[nl].price)
               /\ NumLt(RelDiff(ls[nl - 2].price, ls[nl].price), Fl(3, 100)),
               [name |-> "Inverse Head & Shoulders (bullish)", score |-> 22])
       \o When(/\ NumGt(RelGain(trendLast, trendFirst), Fl(3, 100))
               /\ NumLt(consRange, Fl(3, 200)),
               [name |-> "Bull Flag (continuation)", score |-> 16])
       \o When(/\ NumGt(NumDiv(NumSub(trendFirst, trendLast), trendFirst), Fl(3, 100))
               /\ NumLt(consRange, Fl(3, 200)),
               [name |-> "Bear Flag (continuation)", score |-> 16])
       \o When(/\ NumLt(NumSub(candles[n].high, candles[n - 7].high), Zero)
               /\ NumGt(NumSub(candles[n].low, candles[n - 7].low), Zero),
               [name |-> "Pennant (compression breakout)", score |-> 14])
       \o When(breakout, [name |-> "Wyckoff Accumulation breakout", score |-> 18])
       \o When(breakout /\ NumLt(candles[n].close, candles[n - 5].close),
               [name |-> "Wyckoff Distribution phase", score |-> 18])

\* analyzeVolume of this engine (called with 20 candles or more)
analyzeVolume2(candles) ==
  IF Len(candles) < 20 THEN [score |-> 0, factors |-> <<>>]
  ELSE
    LET recent == SliceLast(candles, 20)
        avgVol == NumDiv(SumVolume(SliceFirst(recent, 15), 1, Zero), Num(15))
        lastCandle == recent[Len(recent)]
        prevCandle == recent[Len(recent) - 1]
        lastVol == lastCandle.volume
        last3Vol == NumDiv(SumVolume(SliceLast(recent, 3), 1, Zero), Num(3))
        last5 == SliceLast(recent, 5)
        volTrend == \A i \in 2..Len(last5) :
                      NumGe(last5[i].volume, NumMul(last5[i - 1].volume, Fl(9, 10)))
        spike == NumGt(lastVol, NumMul(avgVol, Num(2)))
        above == ~spike /\ NumGt(lastVol, NumMul(avgVol, OneAndHalf))
        before == SubSeq(recent, Len(recent) - 9, Len(recent) - 1)
        isBreakout == \/ NumGt(lastCandle.close, MaxOver(before, "high", 1))
                      \/ NumLt(lastCandle.close, MinOver(before, "low", 1))
        fakeout == isBreakout /\ NumLt(lastVol, NumMul(avgVol, Fl(4, 5)))
        body == NumAbs(NumSub(lastCandle.close, lastCandle.open))
        range == NumSub(lastCandle.high, lastCandle.low)
        capitulation == /\ NumGt(lastVol, NumMul(avgVol, Num(3)))
                        /\ NumLt(body, NumMul(range, Fl(3, 10)))
        divergence == /\ NumGt(lastCandle.close, prevCandle.close)
                      /\ NumLt(lastVol, NumMul(last3Vol, Fl(7, 10)))
        score == (IF volTrend THEN 10 ELSE 0)
                 + (IF spike THEN 15 ELSE IF above THEN 8 ELSE 0)
                 - (IF fakeout THEN 10 ELSE 0)
                 + (IF capitulation THEN 12 ELSE 0)
                 - (IF divergence THEN 5 ELSE 0)
    IN [score |-> IF score < 0 THEN 0 ELSE score,
        factors |->
          When(volTrend, <<"Rising volume trend confirmation", "">>)
          \o When(spike, <<"Volume spike on breakout", "">>)
          \o When(above, <<"Above-average volume", "">>)
          \o When(fakeout, <<"Fakeout risk: breakout without volume", "">>)
          \o When(capitulation, <<"Capitulation spike (reversal signal)", "">>)
          \o When(divergence, <<"Volume divergence detected", "">>)]

\* reduce((s, c) => s + (c.high - c.low), 0)
RECURSIVE SumRange(_, _, _)
SumRange(seq, i, acc) ==
  IF i > Len(seq) THEN acc
  ELSE SumRange(seq, i + 1, NumAdd(acc, NumSub(seq[i].high, seq[i].low)))

\* analyzeMarketPsychology (called with 20 candles or more)
analyzeMarketPsychology(candles) ==
  IF Len(candles) < 20 THEN [score |-> 0, factors |-> <<>>]
  ELSE Const({
  Const({
  Const({
  Const({
    LET score == (IF bullTrap THEN 14 ELSE 0) + (IF bearTrap THEN 14 ELSE 0)
                 + (IF sweepUp THEN 16 ELSE 0) + (IF sweepDown THEN 16 ELSE 0)
                 + (IF oversold \/ overbought THEN 10 ELSE IF neutral THEN 5 ELSE 0)
    IN [score |-> IF score < 0 THEN 0 ELSE score,
        factors |->
          When(bullTrap, <<"Bull trap reversal detected", "">>)
          \o When(bearTrap, <<"Bear trap reversal detected", "">>)
          \o When(sweepUp, <<"Liquidity sweep reversal (stop hunt)", "">>)
          \o When(sweepDown, <<"Liquidity sweep reversal (stop hunt)", "">>)
          \o When(oversold, <<"RSI oversold", "">>)
          \o When(overbought, <<"RSI overbought", "">>)
          \o When(neutral, <<"RSI neutral", "">>)]
    : bullTrap \in {/\ NumGt(prev.high, resistance) /\ NumLt(last.close, resistance)
                    /\ NumLt(last.close, prev.open)},
      bearTrap \in {/\ NumLt(prev.low, support) /\ NumGt(last.close, support)
                    /\ NumGt(last.close, prev.open)},
      sweepUp \in {/\ wide
                   /\ NumGt(lowerWick, NumMul(NumSub(last.high, last.low), Fl(1, 2)))
                   /\ NumGt(last.close, last.open)},
      sweepDown \in {/\ wide
                     /\ NumGt(upperWick, NumMul(NumSub(last.high, last.low), Fl(1, 2)))
                     /\ NumLt(last.close, last.open)},
      oversold \in {NumLt(rsi, Num(30))},
      overbought \in {~NumLt(rsi, Num(30)) /\ NumGt(rsi, Num(70))},
      neutral \in {/\ ~NumLt(rsi, Num(30)) /\ ~NumGt(rsi, Num(70))
                   /\ NumGe(rsi, Num(45)) /\ NumLe(rsi, Num(55))} })
    : resistance \in {MaxOver(earlier, "high", 1)},
      support \in {MinOver(earlier, "low", 1)},
      wide \in {NumGt(NumSub(last.high, last.low),
                      NumMul(NumDiv(SumRange(earlier, 1, Zero), Num(n - 3)), Fl(9, 5)))},
      lowerWick \in {NumSub(NumMin(last.open, last.close), last.low)},
      upperWick \in {NumSub(last.high, NumMax(last.open, last.close))},
      rsi \in {calculateRSI(candles, 14)} })
    : n \in {Len(recent)},
      last \in {recent[Len(recent)]},
      prev \in {recent[Len(recent) - 1]},
      earlier \in {SliceFirst(recent, Len(recent) - 3)} })
    : recent \in {SliceLast(candles, 20)} })

\* analyzeStrategyAlignment of this engine
analyzeStrategyAlignment2(modality, bos, fvg, choch, rsi) ==
  LET hits ==
        CASE modality = "Scalping" ->
               When(fvg.detected, [s |-> 15, f |-> <<"FVG entry zone on 5m", "">>])
               \o When(bos.detected, [s |-> 10, f |-> <<"BOS momentum for scalp", "">>])
          [] modality = "DayTrading" ->
               When(bos.detected, [s |-> 18, f |-> <<"BOS confirmed on 1h", "">>])
               \o When(choch.detected, [s |-> 12, f |-> <<"CHoCH confirmed on 1h", "">>])
          [] modality = "Swing" ->
               When(choch.detected, [s |-> 15, f |-> <<"CHoCH swing structure shift", "">>])
               \o When(NumLt(rsi, Num(35)) \/ NumGt(rsi, Num(65)),
                       [s |-> 12, f |-> <<"RSI divergence zone for swing", "">>])
          [] modality = "Position" ->
               When(bos.detected, [s |-> 12, f |-> <<"BOS on daily", "">>])
               \o When(fvg.detected, [s |-> 10, f |-> <<"Daily FVG", "">>])
  IN [score |-> (IF Len(hits) >= 1 THEN hits[1].s ELSE 0)
                + (IF Len(hits) >= 2 THEN hits[2].s ELSE 0),
      factors |-> [i \in 1..Len(hits) |-> hits[i].f]]

\* analyzeRisk
analyzeRisk(candles) ==
  Const({
  IF atr = Zero
  THEN [score |-> 0, factors |-> << <<"ATR unavailable", "">> >>, rrRatio |-> Zero]
  ELSE Const({
  Const({
    LET rr == IF NumGe(rrRatio, Num(3)) THEN [s |-> 20, f |-> "Excellent R:R ratio"]
              ELSE IF NumGe(rrRatio, Num(2)) THEN [s |-> 15, f |-> "Good R:R ratio"]
              ELSE IF NumGe(rrRatio, OneAndHalf) THEN [s |-> 8, f |-> "Acceptable R:R ratio"]
              ELSE [s |-> -10, f |-> "Poor R:R ratio"]
        healthy == NumGt(atrPercent, Fl(1, 2)) /\ NumLt(atrPercent, Num(5))
        high == ~healthy /\ NumGe(atrPercent, Num(5))
        score == rr.s + (IF healthy THEN 10 ELSE IF high THEN -5 ELSE 0)
    IN [score |-> IF score < 0 THEN 0 ELSE score,
        factors |-> << <<rr.f, "">> >>
                    \o When(healthy, <<"Healthy volatility", "">>)
                    \o When(high, <<"High volatility risk", "">>),
        rrRatio |-> rrRatio]
    : rrRatio \in {NumDiv(NumMul(slDistance, TwoAndHalf), slDistance)},
      atrPercent \in {NumMul(NumDiv(atr, candles[Len(candles)].close), Num(100))} })
    : slDistance \in {NumMul(atr, OneAndHalf)} })
    : atr \in {calculateATR(candles, 14)} })

\* analyzeSMC (called with 20 candles or more)
analyzeSMC(candles) ==
  Const({
  Const({
  Const({
    LET score == (IF bos.detected THEN 18 ELSE 0) + (IF choch.detected THEN 15 ELSE 0)
                 + (IF quality THEN 15 ELSE IF fvg.detected THEN 8 ELSE 0)
                 + (IF atBlock THEN 18 ELSE IF nearBlock THEN 10 ELSE 0)
                 + (IF obBroken THEN 12 ELSE 0)
                 + (IF sweptHighs THEN 14 ELSE 0) + (IF sweptLows THEN 14 ELSE 0)
    IN [score |-> IF score < 0 THEN 0 ELSE score,
        factors |->
          When(bos.detected, <<"Strong BOS detected", bos.direction>>)
          \o When(choch.detected, <<"CHoCH confirmed", choch.direction>>)
          \o When(quality, <<"Quality FVG", fvg.direction>>)
          \o When(fvg.detected /\ ~quality, <<"FVG present", fvg.direction>>)
          \o When(atBlock, <<"Price at Order Block", ob.direction>>)
          \o When(nearBlock, <<"Order Block nearby", ob.direction>>)
          \o When(obBroken, <<"Breaker Block formation detected", "">>)
          \o When(sweptHighs, <<"Liquidity sweep above highs (bearish reversal)", "">>)
          \o When(sweptLows, <<"Liquidity sweep below lows (bullish reversal)", "">>)]
    : quality \in {fvg.detected /\ NumGt(gapPercent, Fl(3, 10))},
      atBlock \in {ob.detected /\ NumLt(distancePercent, Num(1))},
      nearBlock \in {/\ ob.detected /\ ~NumLt(distancePercent, Num(1))
                     /\ NumLt(distancePercent, Num(3))},
      obBroken \in {
        /\ ob.detected /\ bos.detected
        /\ \/ /\ ob.direction = "bullish" /\ bos.direction = "bearish"
              /\ NumLt(currentPrice, ob.bottom)
           \/ /\ ob.direction = "bearish" /\ bos.direction = "bullish"
              /\ NumGt(currentPrice, ob.top)},
      sweptHighs \in {NumGt(prev.high, keyHigh) /\ NumLt(last.close, keyHigh)},
      sweptLows \in {NumLt(prev.low, keyLow) /\ NumGt(last.close, keyLow)} })
    : gapPercent \in {NumMul(NumDiv(NumAbs(NumSub(fvg.top, fvg.bottom)), currentPrice),
                             Num(100))},
      distancePercent \in {NumMul(NumDiv(NumAbs(NumSub(currentPrice, ob.midpoint)),
                                         currentPrice), Num(100))},
      keyHigh \in {MaxOver(SubSeq(candles, Len(candles) - 19, Len(candles) - 10),
                           "high", 1)},
      keyLow \in {MinOver(SubSeq(candles, Len(candles) - 19, Len(candles) - 10),
                          "low", 1)} })
    : bos \in {detectBOS(candles)},
      fvg \in {detectFVG(candles)},
      ob \in {detectOrderBlocks(candles)},
      choch \in {detectCHOCH(candles)},
      currentPrice \in {candles[Len(candles)].close},
      last \in {candles[Len(candles)]},
      prev \in {candles[Len(candles) - 1]} })

\* analyzePriceAction, the loop over i = 1 .. recent.length - 1: the numbers
\* of higher-high-higher-low and of lower-high-lower-low candles
HigherSteps(recent) ==
  Cardinality({i \in 2..Len(recent) :
                 /\ NumGt(recent[i].high, recent[i - 1].high)
                 /\ NumGt(recent[i].low, recent[i - 1].low)})
LowerSteps(recent) ==
  Cardinality({i \in 2..Len(recent) :
                 /\ NumLt(recent[i].high, recent[i - 1].high)
                 /\ NumLt(recent[i].low, recent[i - 1].low)})

\* analyzePriceAction (called with 20 candles or more)
analyzePriceAction(candles) ==
  IF Len(candles) < 20 THEN [score |-> 0, factors |-> <<>>]
  ELSE
    LET recent == SliceLast(candles, 20)
        hhhl == HigherSteps(recent)
        lhll == LowerSteps(recent)
        bullishCount == Len(Bullish(SliceLast(recent, 5)))
        score == (IF hhhl >= 5 THEN 15 ELSE IF hhhl >= 3 THEN 8 ELSE 0)
                 + (IF lhll >= 5 THEN 15 ELSE IF lhll >= 3 THEN 8 ELSE 0)
                 + (IF bullishCount >= 4 \/ bullishCount <= 1 THEN 10 ELSE 0)
    IN [score |-> IF score < 0 THEN 0 ELSE score,
        factors |->
          When(hhhl >= 5, <<"Strong bullish structure (HH+HL)", "">>)
          \o When(hhhl < 5 /\ hhhl >= 3, <<"Developing bullish structure", "">>)
          \o When(lhll >= 5, <<"Strong bearish structure (LH+LL)", "">>)
          \o When(lhll < 5 /\ lhll >= 3, <<"Developing bearish structure", "">>)
          \o When(bullishCount >= 4, <<"Strong bullish momentum (4/5 candles)", "">>)
          \o When(bullishCount < 4 /\ bullishCount <= 1,
                  <<"Strong bearish momentum (4/5 candles)", "">>)]

\* forEach(f => allFactors.push({label: f, score: score / Math.max(1, factors.length)})):
\* the score of a factor is the exact quotient n / d (both are small
\* integers, and the order of two such quotients is the order of the Numbers
\* the division returns)
Shared(module) ==
  [score |-> module.score,
   factors |-> [i \in 1..Len(module.factors) |->
                  [label |-> module.factors[i], n |-> module.score,
                   d |-> Len(module.factors)]]]

\* patterns.reduce((s, p) => s + p.score, 0) with
\* patterns.forEach(p => allFactors.push({label: p.name, score: p.score}))
RECURSIVE SumScores(_)
SumScores(patterns) ==
  IF patterns = <<>> THEN 0 ELSE Head(patterns).score + SumScores(Tail(patterns))
Patterns(patterns) ==
  [score |-> SumScores(patterns),
   factors |-> [i \in 1..Len(patterns) |->
                  [label |-> <<patterns[i].name, "">>, n |-> patterns[i].score, d |-> 1]]]

\* the confluence bonus of scoreSymbol
Confluence(bos, fvg, choch) ==
  LET hits == When(bos.detected /\ fvg.detected, <<"BOS + FVG confluence", "">>)
              \o When(bos.detected /\ choch.detected, <<"BOS + CHoCH confluence", "">>)
  IN [score |-> 8 * Len(hits),
      factors |-> [i \in 1..Len(hits) |-> [label |-> hits[i], n |-> 8, d |-> 1]]]

\* scoreSymbol of this engine: what it adds to totalScore and pushes to
\* allFactors, in the order of the code
Pillars(candles, modality) ==
  Const({
  Const({
    << Shared(smcAnalysis),
       Shared(volumeAnalysis),
       Shared(priceActionAnalysis),
       Patterns(candlePatterns),
       Patterns(chartPatterns),
       Confluence(bos, fvg, choch),
       Shared(psychAnalysis),
       Shared(strategyAnalysis),
       Shared(riskAnalysis) >>
    : smcAnalysis \in {analyzeSMC(candles)},
      volumeAnalysis \in {analyzeVolume2(candles)},
      priceActionAnalysis \in {analyzePriceAction(candles)},
      candlePatterns \in {detectCandlestickPatterns(candles)},
      chartPatterns \in {detectChartPatterns2(candles)},
      psychAnalysis \in {analyzeMarketPsychology(candles)},
      strategyAnalysis \in {analyzeStrategyAlignment2(modality, bos, fvg, choch, rsi)},
      riskAnalysis \in {analyzeRisk(candles)} })
    : bos \in {detectBOS(candles)},
      fvg \in {detectFVG(candles)},
      choch \in {detectCHOCH(candles)},
      rsi \in {calculateRSI(candles, 14)} })


\* allFactors.sort((a, b) => b.score - a.score): stable, by descending score
RECURSIVE InsertFactor(_, _)
InsertFactor(sorted, f) ==
  IF sorted = <<>> THEN <<f>>
  ELSE IF f.n * Head(sorted).d > Head(sorted).n * f.d THEN <<f>> \o sorted
  ELSE <<Head(sorted)>> \o InsertFactor(Tail(sorted), f)
RECURSIVE SortFactors(_, _)
SortFactors(fs, acc) ==
  IF fs = <<>> THEN acc ELSE SortFactors(Tail(fs), InsertFactor(acc, Head(fs)))

fallbacks ==
  << <<"Market structure analyzed", "">>, <<"Multi-timeframe confluence", "">>,
     <<"SMC framework applied", "">> >>

\* sortedFactors.slice(0, 3) followed by the padding loop
RECURSIVE Pad(_)
Pad(topFactors) ==
  IF Len(topFactors) < 3 THEN Pad(Append(topFactors, fallbacks[Len(topFactors) + 1]))
  ELSE topFactors
TopFactors2(allFactors) ==
  LET positive == SelectSeq(allFactors, LAMBDA f : f.n > 0)
      sortedFactors == SortFactors(positive, <<>>)
  IN Pad([i \in 1..(IF Len(sortedFactors) < 3 THEN Len(sortedFactors) ELSE 3) |->
            sortedFactors[i].label])

\* Math.min(100, Math.max(0, Math.round(totalScore / 3))); the quotient of an
\* integer below 2^53 by 3 is never a Number halfway between two integers
normalizedScore2(totalScore) ==
  LET rounded == MathRound(totalScore, 3)
  IN IF rounded > 100 THEN 100 ELSE IF rounded < 0 THEN 0 ELSE rounded

\* A call of scoreSymbol of this engine: the value it returns, with the
\* amounts it adds to totalScore and the labels it pushes on the way
ScoreSymbol2Call(fetched, klines, modality) ==
  IF ~fetched THEN NothingScored("scoreSymbol2")
  ELSE Const({
  IF Len(candles) < 20 THEN NothingScored("scoreSymbol2")
  ELSE Const({
  Const({
    LET totalScore == IF NumLt(rrRatio, OneAndHalf) THEN summed \div 2 ELSE summed
    IN [by |-> "scoreSymbol2",
        value |-> [score |-> normalizedScore2(totalScore),
                   topFactors |-> TopFactors2(allFactors)],
        subScores |-> ScoresOf(ps),
        collected |-> Labels(allFactors)]
    : summed \in {SumModules(ps, 1)},
      allFactors \in {AllFactors(ps, 1)} })
    : ps \in {Pillars(candles, modality)},
      rrRatio \in {analyzeRisk(candles).rrRatio} })
    : candles \in {parseKlines(klines)} })

\* scoreSymbol of this engine: what the call returns
scoreSymbol2(fetched, klines, modality) == ScoreSymbol2Call(fetched, klines, modality).value

----------------------------------------------------------------------------
(* scoreSymbol of both engines called on its own *)

\* the klines of scoring: the last kline's volume is a fraction or a multiple
\* of the ordinary volume
LastVolumes == {1, BaseVolume, 4 * BaseVolume}
WithLastVolume(klines, v) ==
  IF klines = <<>> THEN klines
  ELSE Append(SubSeq(klines, 1, Len(klines) - 1),
              [klines[Len(klines)] EXCEPT !.volume = v])

\* the lengths scoring is called with: none, one below the 20 of the guard,
\* 20 and the longest
ScoringLengths == {0, 19, 20, MaxCandles}
\* the motifs and tails scoring is called with
ScoringMotifs == {<<"F">>, <<"U">>, <<"D">>, <<"U", "D">>, <<"B", "D">>, <<"S", "U">>}
ScoringTails == {<<a, b>> : a \in {"F", "D"}, b \in Kinds}

InitScoring ==
  /\ HookIdle
  /\ \E n \in ScoringLengths, motif \in ScoringMotifs, tail \in ScoringTails,
        v \in LastVolumes, modality \in TradeModality, fetched \in BOOLEAN :
       LET klines == WithLastVolume(KlinesOf(KindsOf(n, motif, tail), BasePrice, <<>>), v)
       IN /\ Priced(klines)
          /\ fetched \/ n = 0
          /\ arg = [fetched |-> fetched, klines |-> klines, modality |-> modality]
  /\ ret = Null


ScoreSymbol ==
  /\ ret = Null
  /\ ret' = ScoreSymbolCall(arg.fetched, arg.klines, arg.modality)
  /\ UNCHANGED <<trades, pricesRef, history, regenTimers, genInFlight, pending,
                 nextId, appended, lastOp, arg>>

ScoreSymbol2 ==
  /\ ret = Null
  /\ ret' = ScoreSymbol2Call(arg.fetched, arg.klines, arg.modality)
  /\ UNCHANGED <<trades, pricesRef, history, regenTimers, genInFlight, pending,
                 nextId, appended, lastOp, arg>>

NextScoring ==
  \/ ScoreSymbol
  \/ ScoreSymbol2

SpecScoring == InitScoring /\ [][NextScoring]_vars

\* the documented upper ends of the seven sub-scores: SMC, candlestick, chart,
\* volume, psychology, strategy alignment, risk
DocumentedRanges == <<25, 10, 10, 25, 15, 20, 15>>
RECURSIVE Sum(_)
Sum(seq) == IF seq = <<>> THEN 0 ELSE Head(seq) + Sum(Tail(seq))
\* Math.round((raw / 120) * 100) clamped to [0, 100]; in the build's Numbers
\* (69 / 120) * 100 is just below 57.5, every other raw total rounds as the
\* exact quotient does
RoundedShare(raw) ==
  LET r == IF raw = 69 THEN 57 ELSE (2 * raw * 100 + 120) \div (2 * 120)
  IN IF r > 100 THEN 100 ELSE IF r < 0 THEN 0 ELSE r
\* the factors of a ScoredSymbol
FactorsOf(value) ==
  IF "topFactors" \in DOMAIN value THEN value.topFactors ELSE value.scoringFactors
NoDuplicate(seq) == \A i, j \in 1..Len(seq) : seq[i] = seq[j] => i = j

\* C16: with fewer than 20 candles scoreSymbol returns null; with 20 or more it
\* returns the score round(raw / 120 * 100) clamped to [0, 100], raw being the
\* sum of seven sub-scores, each within its documented range.
C16_ScoreIsShareOf120 ==
  (ret # Null /\ arg.fetched)
  => IF Len(arg.klines) < 20 THEN ret.value = Null
     ELSE /\ ret.value # Null
          /\ Len(ret.subScores) = 7
          /\ \A i \in 1..Len(ret.subScores) :
               /\ i <= 7 => ret.subScores[i] <= DocumentedRanges[i]
               /\ ret.subScores[i] >= 0
          /\ ret.value.score = RoundedShare(Sum(ret.subScores))

\* C17: the factor list of a ScoredSymbol has 1 to 3 entries without a
\* duplicate: the first three distinct factors in the order the modules are
\* called, or one generic factor when no module emits a factor.
C17_FirstThreeDistinctFactors ==
  (ret # Null /\ ret.value # Null)
  => LET fs == FactorsOf(ret.value)
         distinct == Unique(ret.collected, <<>>)
     IN /\ Len(fs) \in 1..3
        /\ NoDuplicate(fs)
        /\ IF distinct = <<>> THEN Len(fs) = 1
           ELSE fs = SubSeq(distinct, 1, IF Len(distinct) < 3 THEN Len(distinct) ELSE 3)

----------------------------------------------------------------------------
(* scoreSymbolsForModality as the top-N of the whole list *)

\* C22: the list either version returns is the top-N of the whole input: no
\* symbol of the input that can be scored and whose score is strictly higher
\* than the score of a returned entry is missing from the result.
C22_TopNOfWholeList ==
  ret # Null =>
    \A i \in 1..Len(arg.symbols), j \in 1..Len(ret.list) :
      (arg.symbols[i].score \in Scores /\ arg.symbols[i].score > ret.list[j].score)
      => \E k \in 1..Len(ret.list) : ret.list[k].symbol = i

----------------------------------------------------------------------------
(* scoreSymbolsForModality as a process: the scoreSymbol calls of a batch   *)
(* are started together, settle one by one in any order, and the loop goes  *)
(* on when Promise.allSettled resolves.                                     *)

\* What the scoreSymbol calls of a list settle to (-1 for null): a score for
\* every symbol, null for every third symbol, or null for every symbol.
Outcomes(n) ==
  { [k \in 1..n |-> IF k % 2 = 1 THEN 40 ELSE 70],
    [k \in 1..n |-> IF k % 3 = 0 THEN -1 ELSE IF k % 2 = 1 THEN 40 ELSE 70],
    [k \in 1..n |-> -1] }

Unstarted == [status |-> "unstarted", score |-> 0]
InFlight == [status |-> "pending", score |-> 0]

\* symbols.slice(i, i + BATCH_SIZE), as positions in symbols
BatchAt(i, n, batchSize) == (i + 1)..(IF i + batchSize < n THEN i + batchSize ELSE n)

\* batch.map((symbol) => scoreSymbol(symbol, modality, interval)): every call
\* of the batch runs up to its first await
StartBatch(calls, i, batchSize) ==
  [k \in DOMAIN calls |->
     IF k \in BatchAt(i, Len(calls), batchSize) THEN InFlight ELSE calls[k]]

\* Promise.any in the place of Promise.allSettled: one settled call is enough.
AllSettled_any(calls, i, batchSize) ==
  \E k \in BatchAt(i, Len(calls), batchSize) : calls[k].status = "fulfilled"

\* Promise.allSettled(...) resolves: every promise of the batch has settled
AllSettled(calls, i, batchSize) ==
  \A k \in BatchAt(i, Len(calls), batchSize) : calls[k].status = "fulfilled"

\* the loop over batchResults: the fulfilled, non-null values in batch order
RECURSIVE BatchResults(_, _, _)
BatchResults(calls, k, last) ==
  IF k > last THEN <<>>
  ELSE (IF calls[k].score # -1 THEN <<[symbol |-> k, score |-> calls[k].score]>> ELSE <<>>)
       \o BatchResults(calls, k + 1, last)

\* results.sort((a, b) => b.score - a.score).slice(0, limit)
Returned(run, results, limit) ==
  [run EXCEPT !.pc = "done", !.results = results,
              !.list = Slice0(SortByScoreDesc(results), limit)]

\* A call of either version on n symbols.
InitBatches ==
  /\ HookIdle
  /\ \E n \in 0..MaxSymbols, l \in Limits :
       \E f \in Outcomes(n) :
         \/ arg = [symbols |-> SymbolList(n, f), limit |-> l,
                   batchSize |-> BATCH_SIZE, stopAt |-> -1]
         \/ arg = [symbols |-> SymbolList(n, f), limit |-> l,
                   batchSize |-> BATCH_SIZE_EarlyStop, stopAt |-> l * 3]
  /\ ret = Null

\* The call up to its first await: an empty list is returned at once,
\* otherwise the first batch is started.
BatchesCall ==
  /\ ret = Null
  /\ LET n == Len(arg.symbols)
         run == [by |-> "batches", pc |-> "await", i |-> 0,
                 calls |-> [k \in 1..n |-> Unstarted], results |-> <<>>, list |-> <<>>]
     IN ret' = IF n = 0 THEN Returned(run, <<>>, arg.limit)
               ELSE [run EXCEPT !.calls = StartBatch(run.calls, 0, arg.batchSize)]
  /\ UNCHANGED <<trades, pricesRef, history, regenTimers, genInFlight, pending,
                 nextId, appended, lastOp, arg>>

\* A scoreSymbol call settles: with a ScoredSymbol, or with null (fewer than
\* 20 candles, or an error caught by its try/catch).
BatchesSettle ==
  /\ ret # Null /\ ret.by = "batches"
  /\ \E k \in DOMAIN ret.calls :
       /\ ret.calls[k].status = "pending"
       /\ ret' = [ret EXCEPT !.calls[k] =
                    [status |-> "fulfilled", score |-> arg.symbols[k].score]]
  /\ UNCHANGED <<trades, pricesRef, history, regenTimers, genInFlight, pending,
                 nextId, appended, lastOp, arg>>

\* The continuation of `await Promise.allSettled(...)`: the results of the
\* batch are pushed; the loop is left on the break of the early-stopping
\* version or after the last batch, otherwise the delay is awaited.
BatchesCollect ==
  /\ ret # Null /\ ret.by = "batches" /\ ret.pc = "await"
  /\ AllSettled(ret.calls, ret.i, arg.batchSize)
  /\ LET n == Len(arg.symbols)
         last == IF ret.i + arg.batchSize < n THEN ret.i + arg.batchSize ELSE n
         results == ret.results \o BatchResults(ret.calls, ret.i + 1, last)
     IN ret' = IF arg.stopAt # -1 /\ Len(results) >= arg.stopAt
               THEN Returned(ret, results, arg.limit)
               ELSE IF ret.i + arg.batchSize < n
               THEN [ret EXCEPT !.pc = "delay", !.results = results]
               ELSE Returned(ret, results, arg.limit)
  /\ UNCHANGED <<trades, pricesRef, history, regenTimers, genInFlight, pending,
                 nextId, appended, lastOp, arg>>

\* The 200 ms timer fires: i += BATCH_SIZE and the next batch is started.
BatchesDelayElapsed ==
  /\ ret # Null /\ ret.by = "batches" /\ ret.pc = "delay"
  /\ ret' = [ret EXCEPT !.pc = "await", !.i = ret.i + arg.batchSize,
                        !.calls = StartBatch(ret.calls, ret.i + arg.batchSize,
                                             arg.batchSize)]
  /\ UNCHANGED <<trades, pricesRef, history, regenTimers, genInFlight, pending,
                 nextId, appended, lastOp, arg>>

NextBatches ==
  \/ BatchesCall
  \/ BatchesSettle
  \/ BatchesCollect
  \/ BatchesDelayElapsed

SpecBatches == InitBatches /\ [][NextBatches]_vars
\* every fetch settles, and the event loop runs every continuation and timer
FairBatches == WF_vars(NextBatches)
SpecBatchesLive == SpecBatches /\ FairBatches

\* the batch (0-based) of the symbol at position k
BatchNumber(k) == (k - 1) \div arg.batchSize
Started(call) == call.status # "unstarted"
\* no call of a later batch has started whilst a call of an earlier batch is
\* unsettled, and at most BATCH_SIZE calls are in flight
BatchesInOrder ==
  (ret # Null /\ ret.by = "batches") =>
    /\ \A a, b \in DOMAIN ret.calls :
         (BatchNumber(a) < BatchNumber(b) /\ Started(ret.calls[b]))
         => ret.calls[a].status = "fulfilled"
    /\ \A a, b \in DOMAIN ret.calls :
         (a < b /\ Started(ret.calls[b])) => Started(ret.calls[a])
    /\ Cardinality({k \in DOMAIN ret.calls : ret.calls[k].status = "pending"})
         <= arg.batchSize

\* C21: the symbols are processed in consecutive batches of BATCH_SIZE in
\* input order: no scoring call of batch k+1 starts before every call of
\* batch k has settled, at most BATCH_SIZE calls are in flight at any time,
\* and the call returns for every symbol list when each fetch settles.
C21_BatchesOneAfterAnother ==
  /\ []BatchesInOrder
  /\ <>(ret # Null /\ ret.by = "batches" /\ ret.pc = "done")

\* The second batch is in flight, one of its calls settled and another not,
\* after a first batch in which a call settled with null.
C21_Witness ==
  /\ ret # Null /\ ret.by = "batches" /\ ret.pc = "await"
  /\ ret.i > 0
  /\ \E a, b \in BatchAt(ret.i, Len(ret.calls), arg.batchSize) :
       ret.calls[a].status = "pending" /\ ret.calls[b].status = "fulfilled"
  /\ \E k \in 1..ret.i : ret.calls[k].score = -1
  /\ ret.results # <<>>

----------------------------------------------------------------------------
(* The direction and the entry of a synthesized setup *)

\* an entry more than 2% away from the current price, as the Numbers compare
TooFar(entryPrice, currentPrice) ==
  NumGt(NumDiv(NumAbs(NumSub(entryPrice, currentPrice)), currentPrice), Fl(1, 50))
\* the direction a bullish / bearish signal stands for
SideOf(direction) == IF direction = "bullish" THEN "LONG" ELSE "SHORT"

\* the setup follows the priority BOS, FVG, order block, trend on the candles
PriorityFollowed(setup, klines) ==
  Const({
    LET snapped(midpoint) == IF TooFar(midpoint, currentPrice) THEN currentPrice
                             ELSE midpoint
    IN /\ bos.detected
            => setup.direction = SideOf(bos.direction) /\ setup.entry = currentPrice
       /\ (~bos.detected /\ fvg.detected)
            => /\ setup.direction = SideOf(fvg.direction)
               /\ setup.entry = snapped(fvg.midpoint)
       /\ (~bos.detected /\ ~fvg.detected /\ ob.detected)
            => /\ setup.direction = SideOf(ob.direction)
               /\ setup.entry = snapped(ob.midpoint)
       /\ (~bos.detected /\ ~fvg.detected /\ ~ob.detected)
            => /\ setup.direction = "LONG" <=> NumGt(currentPrice, tenBack)
               /\ setup.direction \in {"LONG", "SHORT"}
               /\ setup.entry = currentPrice
    : bos \in {detectBOS(parseKlines(klines))},
      fvg \in {detectFVG(parseKlines(klines))},
      ob \in {detectOrderBlocks(parseKlines(klines))},
      currentPrice \in {Num(klines[Len(klines)].close)},
      tenBack \in {Num(klines[Len(klines) - 9].close)} })

\* C23: the direction and the entry of a returned setup are those of the
\* first of BOS, FVG (entry at its midpoint), order block (entry at its
\* midpoint) and, when none is detected, the trend of the last 10 closes
\* (LONG iff the last close is above the first of them) with the entry at the
\* current price; a BOS leaves the entry at the current price whatever FVG and
\* order block say, and a midpoint more than 2% from the current price is
\* replaced by the current price.
C23_FirstSignalDecides ==
  (ret # Null /\ ret.setup # Null) => PriorityFollowed(ret.setup, arg.klines)

\* A setup whose direction is that of a BOS against an FVG of the other
\* direction, with the entry at the current price.
C23_Witness ==
  /\ ret # Null /\ ret.setup # Null
  /\ LET candles == parseKlines(arg.klines)
     IN /\ detectBOS(candles).detected /\ detectFVG(candles).detected
        /\ detectBOS(candles).direction # detectFVG(candles).direction
        /\ ret.setup.direction = SideOf(detectBOS(candles).direction)
        /\ ret.setup.entry = candles[Len(candles)].close

----------------------------------------------------------------------------
(* The rrRatio field of a synthesized setup *)

\* C24: in every returned setup rrRatio is |tp1 - entry| / |entry - stopLoss|
\* computed from the tp1, entry and stopLoss the setup carries.
C24_RatioOfFirstTarget ==
  (ret # Null /\ ret.setup # Null) =>
    ret.setup.rrRatio = NumDiv(NumAbs(NumSub(ret.setup.tp1, ret.setup.entry)),
                               NumAbs(NumSub(ret.setup.entry, ret.setup.stopLoss)))

----------------------------------------------------------------------------
(* detectBOS: the two break conditions *)

\* the swings detectBOS has found when its loop is over
SwingsOf(candles) ==
  BOSLoop(SliceLast(candles, 20), 1,
          [lastSwingHigh |-> Zero, swingHighIdx |-> -1,
           lastSwingLow |-> Zero, swingLowIdx |-> -1])

\* `swingHighIdx > 0 && lastCandle.close > lastSwingHigh`
BullishBreak(candles) ==
  /\ SwingsOf(candles).swingHighIdx > 0
  /\ NumGt(candles[Len(candles)].close, SwingsOf(candles).lastSwingHigh)

\* `swingLowIdx > 0 && lastCandle.close < lastSwingLow`
BearishBreak(candles) ==
  /\ SwingsOf(candles).swingLowIdx > 0
  /\ NumLt(candles[Len(candles)].close, SwingsOf(candles).lastSwingLow)

\* every candle has its low at or below its high
LowBelowHigh(candles) ==
  \A i \in 1..Len(candles) : NumLe(candles[i].low, candles[i].high)

\* C25 as stated: on candles with low <= high the bullish condition of
\* detectBOS (latest close above the highest swing high of the last 20
\* candles) and its bearish condition (latest close below the lowest swing
\* low) never hold together.
C25_BreaksExclusive ==
  (ret # Null /\ ret.by = "detectBOS" /\ Len(arg.candles) >= 10
   /\ LowBelowHigh(arg.candles))
  => ~(BullishBreak(arg.candles) /\ BearishBreak(arg.candles))

\* C25: detectBOS reports the bullish break whenever the bullish condition
\* holds, also when the bearish condition holds with it; it reports the
\* bearish break when only the bearish condition holds and nothing when
\* neither does.  The two conditions hold together only when the lowest swing
\* low lies above the highest swing high.
C25_BullishCheckedFirst ==
  (ret # Null /\ ret.by = "detectBOS" /\ Len(arg.candles) >= 10
   /\ LowBelowHigh(arg.candles))
  => /\ BullishBreak(arg.candles)
        => (ret.value.detected /\ ret.value.direction = "bullish"
            /\ ret.value.level = SwingsOf(arg.candles).lastSwingHigh)
     /\ (~BullishBreak(arg.candles) /\ BearishBreak(arg.candles))
        => (ret.value.detected /\ ret.value.direction = "bearish"
            /\ ret.value.level = SwingsOf(arg.candles).lastSwingLow)
     /\ (~BullishBreak(arg.candles) /\ ~BearishBreak(arg.candles))
        => ret.value = NotDetected
     /\ (BullishBreak(arg.candles) /\ BearishBreak(arg.candles))
        => NumGt(SwingsOf(arg.candles).lastSwingLow,
                 SwingsOf(arg.candles).lastSwingHigh)

\* detectBOS has reported a bullish break for a close that is above the
\* highest swing high and below the lowest swing low.
C25_Witness ==
  /\ ret # Null /\ ret.by = "detectBOS" /\ LowBelowHigh(arg.candles)
  /\ BullishBreak(arg.candles) /\ BearishBreak(arg.candles)
  /\ ret.value.direction = "bullish"

----------------------------------------------------------------------------
(* generateTradeSetup of aiTradeSelection.ts and of trendForecaster.ts:    *)
(* the ranking, the candidates one after another, the fallback.  A call of *)
(* the setup builder fetches klines of its own; whether it returns a setup *)
(* or null is an input of each step.                                       *)

\* The longest symbol list a generation ranks.
MaxGenSymbols == 4
\* the limit both versions pass to scoreSymbolsForModality
CandidateLimit == 10
\* FALLBACK_SYMBOLS.slice(0, 3) of trendForecaster.ts; aiTradeSelection.ts
\* falls back to 'BTCUSDT' alone.  A fallback symbol is its position in
\* FALLBACK_SYMBOLS.
FallbackSlice == 3
Versions == {"aiTradeSelection", "trendForecaster"}

FallbacksOf(version) == IF version = "aiTradeSelection" THEN 1 ELSE FallbackSlice

\* aiTradeSelection.ts imports the scoring engine that stops early,
\* trendForecaster.ts the one that scores every batch.
RankingOf(version, symbols) ==
  IF version = "aiTradeSelection"
  THEN scoreSymbolsForModalityEarlyStop(symbols, CandidateLimit)
  ELSE scoreSymbolsForModality(symbols, CandidateLimit)

\* the return of a setup, or of null
Generated(run, value) == [run EXCEPT !.pc = "done", !.value = value]

\* After the loop over the candidates: aiTradeSelection.ts goes on to its
\* last resort, trendForecaster.ts returns null.
AfterCandidates(run, version) ==
  IF version = "aiTradeSelection"
  THEN [run EXCEPT !.pc = "lastResort", !.i = 0]
  ELSE Generated(run, Null)

InitGenerate ==
  /\ HookIdle
  /\ \E n \in 0..MaxGenSymbols, version \in Versions :
       \E f \in [1..n -> Scores \cup {-1}] :
         arg = [version |-> version, symbols |-> SymbolList(n, f)]
  /\ ret = Null

\* generateTradeSetup up to `scoredSymbols.length === 0`
GenerateRank ==
  /\ ret = Null
  /\ ret' = Const({ [by |-> "generateTradeSetup",
                     pc |-> IF ranking = <<>> THEN "fallback" ELSE "candidates",
                     ranking |-> ranking, i |-> 0, tried |-> <<>>, value |-> Null]
                    : ranking \in {RankingOf(arg.version, arg.symbols)} })
  /\ UNCHANGED <<trades, pricesRef, history, regenTimers, genInFlight,
                 pending, nextId, appended, lastOp, arg>>

\* one turn of the loop over the candidates: the builder has settled
GenerateCandidate ==
  /\ ret # Null /\ ret.by = "generateTradeSetup" /\ ret.pc = "candidates"
  /\ \E built \in BOOLEAN :
       LET symbol == ret.ranking[ret.i + 1].symbol
           run == [ret EXCEPT !.i = ret.i + 1,
                              !.tried = Append(ret.tried, [from |-> "ranking",
                                                           symbol |-> symbol,
                                                           built |-> built])]
       IN ret' = IF built THEN Generated(run, [from |-> "ranking", symbol |-> symbol])
                 ELSE IF run.i < Len(run.ranking) THEN run
                 ELSE AfterCandidates(run, arg.version)
  /\ UNCHANGED <<trades, pricesRef, history, regenTimers, genInFlight,
                 pending, nextId, appended, lastOp, arg>>

\* the fallback for an empty ranking: 'BTCUSDT' in aiTradeSelection.ts, the
\* loop over the first three fallback symbols in trendForecaster.ts
GenerateFallback ==
  /\ ret # Null /\ ret.by = "generateTradeSetup" /\ ret.pc = "fallback"
  /\ \E built \in BOOLEAN :
       LET symbol == ret.i + 1
           run == [ret EXCEPT !.i = ret.i + 1,
                              !.tried = Append(ret.tried, [from |-> "fallback",
                                                           symbol |-> symbol,
                                                           built |-> built])]
       IN ret' = IF built THEN Generated(run, [from |-> "fallback", symbol |-> symbol])
                 ELSE IF run.i < FallbacksOf(arg.version) THEN run
                 ELSE Generated(run, Null)
  /\ UNCHANGED <<trades, pricesRef, history, regenTimers, genInFlight,
                 pending, nextId, appended, lastOp, arg>>

\* "Step 4: Last resort fallback" of aiTradeSelection.ts
GenerateLastResort ==
  /\ ret # Null /\ ret.by = "generateTradeSetup" /\ ret.pc = "lastResort"
  /\ \E built \in BOOLEAN :
       LET run == [ret EXCEPT !.tried = Append(ret.tried, [from |-> "fallback",
                                                           symbol |-> 1,
                                                           built |-> built])]
       IN ret' = Generated(run, IF built THEN [from |-> "fallback", symbol |-> 1]
                                ELSE Null)
  /\ UNCHANGED <<trades, pricesRef, history, regenTimers, genInFlight,
                 pending, nextId, appended, lastOp, arg>>

NextGenerate ==
  \/ GenerateRank
  \/ GenerateCandidate
  \/ GenerateFallback
  \/ GenerateLastResort

SpecGenerate == InitGenerate /\ [][NextGenerate]_vars

\* the builder calls made for candidates of the ranking
CandidatesTried(run) == SelectSeq(run.tried, LAMBDA t : t.from = "ranking")

\* C26: generateTradeSetup tries the ranked candidates in descending-score
\* order and returns the setup of the first one the builder succeeds for;
\* with an empty ranking, or once every candidate has failed, it tries a
\* default symbol, and it returns null only after the default symbol has
\* failed as well.
C26_FallbackBeforeNull ==
  (ret # Null /\ ret.by = "generateTradeSetup" /\ ret.pc = "done")
  => /\ \A a, b \in 1..Len(ret.ranking) :
          a < b => ret.ranking[a].score >= ret.ranking[b].score
     /\ \A k \in 1..Len(CandidatesTried(ret)) :
          /\ ret.tried[k].from = "ranking"
          /\ ret.tried[k].symbol = ret.ranking[k].symbol
     /\ \A k \in 1..(Len(ret.tried) - 1) : ~ret.tried[k].built
     /\ ret.value # Null
          => /\ ret.tried[Len(ret.tried)].built
             /\ ret.value.symbol = ret.tried[Len(ret.tried)].symbol
             /\ ret.value.from = ret.tried[Len(ret.tried)].from
     /\ (\A k \in 1..Len(ret.tried) : ret.tried[k].from = "ranking" => ~ret.tried[k].built)
          => /\ Len(CandidatesTried(ret)) = Len(ret.ranking)
             /\ \E k \in 1..Len(ret.tried) : ret.tried[k].from = "fallback"
     /\ ret.value = Null
          => \E k \in 1..Len(ret.tried) :
               ret.tried[k].from = "fallback" /\ ~ret.tried[k].built

----------------------------------------------------------------------------
(* The target flags of a trade, in its slot and in the history *)

Between(x, a, b) == (a <= x /\ x <= b) \/ (b <= x /\ x <= a)

\* tp1 lies between entry and tp2, and tp2 between tp1 and tp3
LevelsOrdered(trade) ==
  /\ Between(trade.tp1, trade.entry, trade.tp2)
  /\ Between(trade.tp2, trade.tp1, trade.tp3)

FlagsNested(trade) ==
  /\ trade.tp3Hit => trade.tp2Hit
  /\ trade.tp2Hit => trade.tp1Hit

\* C27: on every trade in a slot and every ClosedTrade of the history whose
\* levels are ordered, tp3Hit implies tp2Hit and tp2Hit implies tp1Hit; and
\* no trade in a slot has tp3Hit set.
C27_FlagsNested ==
  /\ \A m \in Modalities :
       trades[m] # Null
       => /\ LevelsOrdered(trades[m]) => FlagsNested(trades[m])
          /\ ~trades[m].tp3Hit
  /\ \A k \in 1..Len(history) :
       LevelsOrdered(history[k]) => FlagsNested(history[k])

\* The trade opened by a reversal after one tick past its second target: that
\* tick has set tp2Hit and then tp1Hit; the trade reversed away is in the
\* history.
C27_Witness ==
  /\ history # <<>> /\ LevelsOrdered(history[1]) /\ FlagsNested(history[1])
  /\ \E m \in Modalities :
       /\ trades[m] # Null /\ trades[m].id > history[1].id
       /\ LevelsOrdered(trades[m])
       /\ trades[m].tp1 # trades[m].tp2
       /\ trades[m].tp2Hit /\ trades[m].tp1Hit /\ trades[m].status = "TP1Hit"

----------------------------------------------------------------------------
(* Live trading on one card, followed past the first close: the calls of   *)
(* closeTrade and reverseTrade that are suspended on their order call      *)
(* while ticks and further calls run.                                      *)

\* ClosedTrades appended in one run, and calls suspended at one time
MaxRaceCloses == 2
MaxRacePending == 2

NextRace ==
  \/ \E prices \in LivePriceMaps :
       CheckAndUpdateTrades(prices) /\ Len(appended') <= MaxRaceCloses
  \/ \E prices \in LivePriceMaps : UpdatePrices(prices)
  \/ \E m \in SimModalities : Outstanding(1) < MaxGenerating /\ GenerateStart(m)
  \/ \E m \in SimModalities : RegenTimerFires(m)
  \/ \E m \in SimModalities, s \in LiveSetups \cup {Null} :
       (s = Null \/ nextId <= MaxTrades) /\ GenerateFinish(m, s)
  \/ \E m \in SimModalities : Len(pending) < MaxRacePending /\ CloseStart(m)
  \/ \E i \in 1..MaxRacePending : Len(appended) < MaxRaceCloses /\ CloseFinish(i)
  \/ \E m \in SimModalities :
       Len(pending) < MaxRacePending /\ Len(appended) < MaxRaceCloses /\ ReverseStart(m)
  \/ \E i \in 1..MaxRacePending : ReverseFinish(i)

SpecRace == Init /\ [][NextRace]_vars

\* C28: no two entries of the closed-trade history have the same trade id,
\* whatever runs between the call of closeTrade or reverseTrade and its
\* continuation after the order call.
C28_OneRecordPerTrade ==
  \A i, j \in 1..Len(history) : i # j => history[i].id # history[j].id

----------------------------------------------------------------------------
(* What a tick may change on a trade that stays open *)

\* the trade with the four fields a tick may write taken from `from`
WithTickFields(trade, from) ==
  [trade EXCEPT !.tp1Hit = from.tp1Hit, !.tp2Hit = from.tp2Hit,
                !.status = from.status, !.currentSL = from.currentSL]

\* the stop of a trade is its stopLoss until tp1Hit and its entry from then on
StopWhereItBelongs(trade) ==
  trade.currentSL = IF trade.tp1Hit THEN trade.entry ELSE trade.stopLoss

\* C29: a tick that leaves a trade in its slot changes at most its tp1Hit,
\* tp2Hit, status and currentSL, every other field stays as it was; and the
\* currentSL of a trade in a slot is its stopLoss while tp1Hit is false and
\* its entry once tp1Hit is true.
C29_TickFrame ==
  /\ [](\A m \in Modalities : trades[m] # Null => StopWhereItBelongs(trades[m]))
  /\ [][lastOp' = "Tick" =>
          \A m \in Modalities :
            (trades[m] # Null /\ trades'[m] # Null)
            => WithTickFields(trades'[m], trades[m]) = trades[m]]_vars

\* A tick has just set tp1Hit alone on the trade a reversal opened, and has
\* moved its stop from stopLoss to entry.
C29_Witness ==
  /\ lastOp = "Tick" /\ history # <<>>
  /\ \E m \in Modalities :
       /\ trades[m] # Null /\ trades[m].id > history[1].id
       /\ trades[m].direction # history[1].direction
       /\ trades[m].tp1Hit /\ ~trades[m].tp2Hit
       /\ trades[m].status = "TP1Hit"
       /\ trades[m].currentSL = trades[m].entry
       /\ trades[m].currentSL # trades[m].stopLoss

----------------------------------------------------------------------------
(* reverseTrade on Numbers: the levels of the new trade are sums and       *)
(* differences of the current price and multiples of atrApprox, each       *)
(* rounded to a Number.                                                    *)

\* reversals of one trade in a row
MaxReversals == 3

\* the trade generateNewTrade installs for a setup of buildTradeSetupFromSymbol
\* with the given entry and stop distance
OpenedTrade(direction, entry, slDistance) ==
  [id |-> 1, direction |-> direction, entry |-> entry,
   stopLoss |-> IF direction = "LONG" THEN NumSub(entry, slDistance)
                ELSE NumAdd(entry, slDistance),
   currentSL |-> IF direction = "LONG" THEN NumSub(entry, slDistance)
                 ELSE NumAdd(entry, slDistance),
   tp1 |-> IF direction = "LONG" THEN NumAdd(entry, NumMul(slDistance, OneAndHalf))
           ELSE NumSub(entry, NumMul(slDistance, OneAndHalf)),
   tp2 |-> IF direction = "LONG" THEN NumAdd(entry, NumMul(slDistance, TwoAndHalf))
           ELSE NumSub(entry, NumMul(slDistance, TwoAndHalf)),
   tp3 |-> IF direction = "LONG" THEN NumAdd(entry, NumMul(slDistance, Num(4)))
           ELSE NumSub(entry, NumMul(slDistance, Num(4))),
   status |-> "Active", tp1Hit |-> FALSE, tp2Hit |-> FALSE, tp3Hit |-> FALSE]

\* entries and stop distances of the trades reversed, and the prices of the
\* symbol at a reversal (0: no price yet, the entry is used)
ReversalEntries == {Num(32), Num(40)}
ReversalStops == {Num(4), Num(2), [n |-> 1, d |-> 8]}
ReversalPrices == {Zero, Num(16), Num(20), Num(33)}

\* `Math.abs(trade.tp1 - trade.entry) / 2`
atrApproxOf(trade) == NumDiv(NumAbs(NumSub(trade.tp1, trade.entry)), Num(2))

\* reverseTrade with atrApprox taken from the stop distance of the trade
reverseTrade_atrFromStop(trade, currentPrice, id) ==
  Const({ [trade EXCEPT
             !.id = id,
             !.direction = newDirection,
             !.entry = currentPrice,
             !.stopLoss = IF newDirection = "LONG" THEN NumSub(currentPrice, atrApprox)
                          ELSE NumAdd(currentPrice, atrApprox),
             !.currentSL = IF newDirection = "LONG" THEN NumSub(currentPrice, atrApprox)
                           ELSE NumAdd(currentPrice, atrApprox),
             !.tp1 = IF newDirection = "LONG"
                     THEN NumAdd(currentPrice, NumMul(atrApprox, Num(2)))
                     ELSE NumSub(currentPrice, NumMul(atrApprox, Num(2))),
             !.tp2 = IF newDirection = "LONG"
                     THEN NumAdd(currentPrice, NumMul(atrApprox, Num(3)))
                     ELSE NumSub(currentPrice, NumMul(atrApprox, Num(3))),
             !.tp3 = IF newDirection = "LONG"
                     THEN NumAdd(currentPrice, NumMul(atrApprox, FourAndHalf))
                     ELSE NumSub(currentPrice, NumMul(atrApprox, FourAndHalf)),
             !.status = "Active",
             !.tp1Hit = FALSE, !.tp2Hit = FALSE, !.tp3Hit = FALSE]
          : newDirection \in {IF trade.direction = "LONG" THEN "SHORT" ELSE "LONG"},
            atrApprox \in {NumAbs(NumSub(trade.entry, trade.stopLoss))} })

\* reverseTrade: the new Trade (lines 128-168), computed on Numbers.
reverseTrade(trade, currentPrice, id) ==
  Const({ [trade EXCEPT
             !.id = id,
             !.direction = newDirection,
             !.entry = currentPrice,
             !.stopLoss = IF newDirection = "LONG" THEN NumSub(currentPrice, atrApprox)
                          ELSE NumAdd(currentPrice, atrApprox),
             !.currentSL = IF newDirection = "LONG" THEN NumSub(currentPrice, atrApprox)
                           ELSE NumAdd(currentPrice, atrApprox),
             !.tp1 = IF newDirection = "LONG"
                     THEN NumAdd(currentPrice, NumMul(atrApprox, Num(2)))
                     ELSE NumSub(currentPrice, NumMul(atrApprox, Num(2))),
             !.tp2 = IF newDirection = "LONG"
                     THEN NumAdd(currentPrice, NumMul(atrApprox, Num(3)))
                     ELSE NumSub(currentPrice, NumMul(atrApprox, Num(3))),
             !.tp3 = IF newDirection = "LONG"
                     THEN NumAdd(currentPrice, NumMul(atrApprox, FourAndHalf))
                     ELSE NumSub(currentPrice, NumMul(atrApprox, FourAndHalf)),
             !.status = "Active",
             !.tp1Hit = FALSE, !.tp2Hit = FALSE, !.tp3Hit = FALSE]
          : newDirection \in {IF trade.direction = "LONG" THEN "SHORT" ELSE "LONG"},
            atrApprox \in {atrApproxOf(trade)} })

InitReversal ==
  /\ HookIdle
  /\ \E direction \in {"LONG", "SHORT"}, entry \in ReversalEntries,
        slDistance \in ReversalStops :
       arg = [trade |-> OpenedTrade(direction, entry, slDistance)]
  /\ ret = Null

\* reverseTrade on the trade of the slot: `pricesRef.current[trade.symbol] ||
\* trade.entry` is the price, and the new trade takes the place of the old one.
Reverse(price) ==
  /\ (IF ret = Null THEN 0 ELSE ret.n) < MaxReversals
  /\ ret' = Const({ [by |-> "reverseTrade",
                     n |-> IF ret = Null THEN 1 ELSE ret.n + 1,
                     old |-> old,
                     atr |-> atrApproxOf(old),
                     trade |-> reverseTrade(old,
                                            IF price # Zero THEN price ELSE old.entry,
                                            old.id + 1)]
                    : old \in {IF ret = Null THEN arg.trade ELSE ret.trade} })
  /\ UNCHANGED <<trades, pricesRef, history, regenTimers, genInFlight,
                 pending, nextId, appended, lastOp, arg>>

NextReversal == \E price \in ReversalPrices : Reverse(price)

SpecReversal == InitReversal /\ [][NextReversal]_vars

\* |level - entry| as the program computes it
LevelDistance(trade, level) == NumAbs(NumSub(level, trade.entry))

\* r is exactly p + sgn * (kn / kd) * a: nothing was rounded away
ExactLevel(r, p, a, kn, kd, sgn) ==
  r.n * (p.d * a.d * kd) = (p.n * a.d * kd + sgn * kn * a.n * p.d) * r.d

\* No level of a reversed trade was rounded: with a the distance of its stop
\* from its entry, the three targets are exactly 2, 3 and 4.5 times a from the
\* entry, and stop and targets are on the sides of its direction.
Unrounded(trade) ==
  LET sgn == IF trade.direction = "LONG" THEN 1 ELSE -1
      a == Distance(trade.entry, trade.stopLoss)
  IN /\ ExactLevel(trade.stopLoss, trade.entry, a, 1, 1, -sgn)
     /\ ExactLevel(trade.tp1, trade.entry, a, 2, 1, sgn)
     /\ ExactLevel(trade.tp2, trade.entry, a, 3, 1, sgn)
     /\ ExactLevel(trade.tp3, trade.entry, a, 9, 2, sgn)

\* the stop distance and the three target distances of the two trades agree
SameDistances(a, b) ==
  /\ LevelDistance(a, a.stopLoss) = LevelDistance(b, b.stopLoss)
  /\ LevelDistance(a, a.tp1) = LevelDistance(b, b.tp1)
  /\ LevelDistance(a, a.tp2) = LevelDistance(b, b.tp2)
  /\ LevelDistance(a, a.tp3) = LevelDistance(b, b.tp3)

====
